---------------------------- MODULE Spec2Model ----------------------------
(***************************************************************************)
(* Verification model of the in-memory knowledge retrieval engine of       *)
(* yc-advisor-v2: the LRU cache with per-entry TTL and the KnowledgeBase   *)
(* orchestrator (src/lib/knowledge/knowledge-base.ts), the getKB() of the  *)
(* chat route (src/app/api/chat/route.ts) and the rate limiter             *)
(* (src/lib/rate-limit.ts).                                                *)
(*                                                                         *)
(* Seven specifications share this module:                                 *)
(*   SpecLRU     one LRUCache<K,V> instance driven by get/set/clear and a  *)
(*               clock (Date.now());                                       *)
(*   SpecKB      one KnowledgeBase instance from construction on, driven   *)
(*               by two concurrent requests (the initialization            *)
(*               lifecycle);                                               *)
(*   SpecLoad    an initialized KnowledgeBase serving loadResource();      *)
(*   SpecSearch  an initialized KnowledgeBase serving search() and         *)
(*               quickSearch();                                            *)
(*   SpecFunctions  the pure functions (applyFilters, calculateKeywordScore,*)
(*               jaccardSimilarity, advancedScoreResource) applied to      *)
(*               inputs drawn from bounded sets;                           *)
(*   SpecRoute   the KnowledgeBase instances of getKnowledgeBase(), handed *)
(*               out by getKB() of the chat route (either version) to two  *)
(*               concurrent request handlers, with resetKnowledgeBase();   *)
(*   SpecLimit   checkRateLimit() called for two client ips while time     *)
(*               passes (in SpecLimit the clock counts milliseconds).      *)
(***************************************************************************)
EXTENDS Integers, Sequences, FiniteSets, TLC

VARIABLES
    now,         \* Date.now(), in model time units
    lru,         \* LRUCache.cache: the Map, as the sequence of its entries in Map order
    lruMax,      \* LRUCache.maxSize  (constructor argument)
    lruTtl,      \* LRUCache.defaultTtl (constructor argument)
    lruRet,      \* the last operation applied to the cache and what it returned
    useOrder,    \* history: keys of the cache ordered by last use (oldest first)
    initialized, \* KnowledgeBase.initialized
    index,       \* KnowledgeBase.index: null or the parsed index file
    resourceCache,  \* KnowledgeBase.resourceCache, the Map of its LRUCache
    searchCache,    \* KnowledgeBase.searchCache, the Map of its LRUCache
    pc,          \* where each request is: idle, or awaiting inside initialize() or
                 \* loadResource()
    kbRet,       \* the last call that returned or suspended, and its outcome
    initFailed,  \* history: some initialize() has thrown
    overlapped,  \* history: an initialize() started while another was in flight
    indexLoads,  \* history: how many times this.index was assigned
    deployed,       \* route.ts: which of the two versions of the route is deployed
    kbInstance,     \* route.ts: the module variable kbInstance, 0 for null
    kbInitializing, \* route.ts: the module variable kbInitializing holds a promise
    handler,        \* route.ts: where each request is in its handler
    globalKnowledgeBase,  \* knowledge-base.ts: globalKnowledgeBase, 0 for null
    instances,      \* the KnowledgeBase instances getKnowledgeBase() has constructed
    rateLimit,   \* rate-limit.ts: the Map of records [count, resetTime] by ip
    lastCleanup, \* rate-limit.ts: lastCleanup
    rlRet,       \* the last checkRateLimit(ip): its argument, time and result
    hasWindow    \* the process runs in a browser: typeof window !== 'undefined'

lruVars == <<lru, lruMax, lruTtl, lruRet, useOrder>>

kbVars == <<initialized, index, resourceCache, searchCache, pc, kbRet, initFailed,
            overlapped, indexLoads>>

routeVars == <<deployed, kbInstance, kbInitializing, handler, globalKnowledgeBase, instances>>

limitVars == <<rateLimit, lastCleanup, rlRet>>

apiVars == <<routeVars, limitVars, hasWindow>>

vars == <<now, lruVars, kbVars, apiVars>>

-----------------------------------------------------------------------------
(* Bounds of the model *)

MaxTime == 2        \* the clock runs from 0 to MaxTime
MaxCacheSize == 2   \* caches are constructed with maxSize in 1..MaxCacheSize

DefaultTtls == {2}  \* values of the defaultTtl constructor argument
SetTtls == {0, 1}   \* values of the ttl argument of set(), when it is given

CacheKeys == {"a", "b", "c"}
CacheValues == {"v1", "v2"}

-----------------------------------------------------------------------------
(* Optional values: undefined is <<>>, a defined value v is <<v>> *)

Undefined == <<>>
Some(v) == <<v>>
IsDefined(o) == o # <<>>
ValueOf(o) == o[1]

OptTtls == {Undefined} \cup {Some(t) : t \in SetTtls}

-----------------------------------------------------------------------------
(* JavaScript Map, as a sequence of entries [key, data, timestamp, ttl]    *)
(* kept in insertion order                                                 *)

MapKeys(c) == {c[i].key : i \in 1..Len(c)}

MapHas(c, k) == k \in MapKeys(c)

MapGet(c, k) == c[CHOOSE i \in 1..Len(c) : c[i].key = k]

MapDelete(c, k) == SelectSeq(c, LAMBDA e : e.key # k)

\* Map.prototype.set: a new key is appended, an existing key keeps its position
MapSet(c, e) ==
    IF MapHas(c, e.key)
    THEN [i \in 1..Len(c) |-> IF c[i].key = e.key THEN e ELSE c[i]]
    ELSE Append(c, e)

-----------------------------------------------------------------------------
(* LRUCache<K,V> *)

\* a variant of Expired that already expires an entry when exactly its TTL has passed
ExpiredInclusive(e, t) == t - e.timestamp >= e.ttl

\* get(): Date.now() - entry.timestamp > entry.ttl
Expired(e, t) == t - e.timestamp > e.ttl

\* set(): ttl || this.defaultTtl  (undefined and 0 are falsy)
EffectiveTtl(ttl, defaultTtl) ==
    IF IsDefined(ttl) /\ ValueOf(ttl) # 0 THEN ValueOf(ttl) ELSE defaultTtl

\* a variant of LRUGet that does not move the entry it returns to the end
LRUGetNoRefresh(c, k, t) ==
    IF ~MapHas(c, k)
    THEN [cache |-> c, ret |-> Undefined]
    ELSE IF t - MapGet(c, k).timestamp > MapGet(c, k).ttl
    THEN [cache |-> MapDelete(c, k), ret |-> Undefined]
    ELSE [cache |-> c, ret |-> Some(MapGet(c, k).data)]

\* get(key) at time t: the cache afterwards and the value returned
LRUGet(c, k, t) ==
    IF ~MapHas(c, k)
    THEN [cache |-> c, ret |-> Undefined]
    ELSE LET entry == MapGet(c, k) IN
         IF Expired(entry, t)
         THEN [cache |-> MapDelete(c, k), ret |-> Undefined]
         ELSE [cache |-> MapSet(MapDelete(c, k), entry), ret |-> Some(entry.data)]

\* a variant of LRUSet that inserts without evicting
LRUSetNoEviction(c, k, v, ttl, t, maxSize, defaultTtl) ==
    MapSet(c, [key |-> k, data |-> v, timestamp |-> t,
               ttl |-> EffectiveTtl(ttl, defaultTtl)])

\* set(key, value, ttl?) at time t: the cache afterwards
LRUSet(c, k, v, ttl, t, maxSize, defaultTtl) ==
    LET evicted == IF Len(c) >= maxSize /\ ~MapHas(c, k) /\ Len(c) > 0
                   THEN MapDelete(c, c[1].key)
                   ELSE c
    IN  MapSet(evicted, [key |-> k, data |-> v, timestamp |-> t,
                         ttl |-> EffectiveTtl(ttl, defaultTtl)])

\* clear()
LRUClear(c) == <<>>

\* size()
LRUSize(c) == Len(c)

-----------------------------------------------------------------------------
(* History: order of last use.  A key is used when it enters the cache and *)
(* when a get() returns it; it leaves the order when it leaves the cache.  *)

Without(s, k) == SelectSeq(s, LAMBDA x : x # k)

Touch(s, k) == Append(Without(s, k), k)

Restrict(s, keys) == SelectSeq(s, LAMBDA x : x \in keys)

Entries(c) == {c[i] : i \in 1..Len(c)}

\* the entries an operation removed, as [key, timestamp]
Removed(before, after) ==
    {[key |-> e.key, timestamp |-> e.timestamp] :
        e \in {x \in Entries(before) : ~MapHas(after, x.key)}}

-----------------------------------------------------------------------------
(* Text.  A JavaScript string is modelled by the sequence of its           *)
(* characters; Text gives the characters of every string the model uses.   *)

Text ==
       "" :> <<>>
    @@ "How to Get Startup Ideas" :> <<"H", "o", "w", " ", "t", "o", " ", "G", "e", "t", " ", "S", "t", "a", "r", "t", "u", "p", " ", "I", "d", "e", "a", "s">>
    @@ "How to get startup ideas" :> <<"H", "o", "w", " ", "t", "o", " ", "g", "e", "t", " ", "s", "t", "a", "r", "t", "u", "p", " ", "i", "d", "e", "a", "s">>
    @@ "Dalton & Michael: Where do great startup ideas come from?" :> <<"D", "a", "l", "t", "o", "n", " ", "&", " ", "M", "i", "c", "h", "a", "e", "l", ":", " ", "W", "h", "e", "r", "e", " ", "d", "o", " ", "g", "r", "e", "a", "t", " ", "s", "t", "a", "r", "t", "u", "p", " ", "i", "d", "e", "a", "s", " ", "c", "o", "m", "e", " ", "f", "r", "o", "m", "?">>
    @@ "Why smart people have bad ideas" :> <<"W", "h", "y", " ", "s", "m", "a", "r", "t", " ", "p", "e", "o", "p", "l", "e", " ", "h", "a", "v", "e", " ", "b", "a", "d", " ", "i", "d", "e", "a", "s">>
    @@ "Paul Graham" :> <<"P", "a", "u", "l", " ", "G", "r", "a", "h", "a", "m">>
    @@ "Jared Friedman" :> <<"J", "a", "r", "e", "d", " ", "F", "r", "i", "e", "d", "m", "a", "n">>
    @@ "Dalton Caldwell, Michael Seibel" :> <<"D", "a", "l", "t", "o", "n", " ", "C", "a", "l", "d", "w", "e", "l", "l", ",", " ", "M", "i", "c", "h", "a", "e", "l", " ", "S", "e", "i", "b", "e", "l">>
    @@ "idea" :> <<"i", "d", "e", "a">>
    @@ "founders" :> <<"f", "o", "u", "n", "d", "e", "r", "s">>
    @@ "mindset" :> <<"m", "i", "n", "d", "s", "e", "t">>
    @@ "startup" :> <<"s", "t", "a", "r", "t", "u", "p">>
    @@ "ideas" :> <<"i", "d", "e", "a", "s">>
    @@ "startup ideas" :> <<"s", "t", "a", "r", "t", "u", "p", " ", "i", "d", "e", "a", "s">>
    @@ "how to get ideas?" :> <<"h", "o", "w", " ", "t", "o", " ", "g", "e", "t", " ", "i", "d", "e", "a", "s", "?">>
    @@ "8z" :> <<"8", "z">>
    @@ "8g" :> <<"8", "g">>
    @@ "DU" :> <<"D", "U">>
    @@ "91" :> <<"9", "1">>
    @@ "zz" :> <<"z", "z">>
    @@ "constructor" :> <<"c", "o", "n", "s", "t", "r", "u", "c", "t", "o", "r">>
    @@ "ai" :> <<"a", "i">>

LowerOf ==
       "A" :> "a"
    @@ "B" :> "b"
    @@ "C" :> "c"
    @@ "D" :> "d"
    @@ "E" :> "e"
    @@ "F" :> "f"
    @@ "G" :> "g"
    @@ "H" :> "h"
    @@ "I" :> "i"
    @@ "J" :> "j"
    @@ "K" :> "k"
    @@ "L" :> "l"
    @@ "M" :> "m"
    @@ "N" :> "n"
    @@ "O" :> "o"
    @@ "P" :> "p"
    @@ "Q" :> "q"
    @@ "R" :> "r"
    @@ "S" :> "s"
    @@ "T" :> "t"
    @@ "U" :> "u"
    @@ "V" :> "v"
    @@ "W" :> "w"
    @@ "X" :> "x"
    @@ "Y" :> "y"
    @@ "Z" :> "z"

LowerLetters == {"a", "b", "c", "d", "e", "f", "g", "h", "i", "j", "k", "l", "m", "n", "o", "p", "q", "r", "s", "t", "u", "v", "w", "x", "y", "z"}

Digits == {"0", "1", "2", "3", "4", "5", "6", "7", "8", "9"}

UpperLetters == DOMAIN LowerOf

\* \s of the regular expressions
IsSpace(ch) == ch = " "

\* \w of the regular expressions: [A-Za-z0-9_]
IsWordChar(ch) == ch \in LowerLetters \cup UpperLetters \cup Digits \cup {"_"}

\* String.prototype.toLowerCase
ToLowerCase(s) ==
    [i \in 1..Len(s) |-> IF s[i] \in UpperLetters THEN LowerOf[s[i]] ELSE s[i]]

\* .replace(/[^\w\s]/g, ' ')
ReplaceNonWord(s) ==
    [i \in 1..Len(s) |-> IF IsWordChar(s[i]) \/ IsSpace(s[i]) THEN s[i] ELSE " "]

\* .replace(/\s+/g, ' ')
RECURSIVE CollapseSpaces(_)
CollapseSpaces(s) ==
    IF Len(s) <= 1 THEN s
    ELSE IF IsSpace(s[1]) /\ IsSpace(s[2]) THEN CollapseSpaces(Tail(s))
    ELSE <<s[1]>> \o CollapseSpaces(Tail(s))

\* .trim()
RECURSIVE TrimStart(_)
TrimStart(s) ==
    IF Len(s) > 0 /\ IsSpace(s[1]) THEN TrimStart(Tail(s)) ELSE s

RECURSIVE TrimEnd(_)
TrimEnd(s) ==
    IF Len(s) > 0 /\ IsSpace(s[Len(s)]) THEN TrimEnd(SubSeq(s, 1, Len(s) - 1)) ELSE s

Trim(s) == TrimEnd(TrimStart(s))

normalizeText(text) == Trim(CollapseSpaces(ReplaceNonWord(ToLowerCase(text))))

\* String.prototype.includes
Includes(value, part) ==
    \E i \in 0..(Len(value) - Len(part)) : SubSeq(value, i + 1, i + Len(part)) = part

\* \b at position p of value (between characters p and p+1)
WordAt(value, i) == i >= 1 /\ i <= Len(value) /\ IsWordChar(value[i])

WordBoundary(value, p) == WordAt(value, p) # WordAt(value, p + 1)

\* new RegExp(`\\b${part}\\b`).test(value), for a part made of \w characters
\* and single spaces (a normalized text holds nothing else)
WordBoundaryTest(value, part) ==
    \E i \in 0..(Len(value) - Len(part)) :
        /\ SubSeq(value, i + 1, i + Len(part)) = part
        /\ WordBoundary(value, i)
        /\ WordBoundary(value, i + Len(part))

\* String.prototype.split(/\s+/) of a normalized text
RECURSIVE SplitWords(_, _)
SplitWords(s, word) ==
    IF Len(s) = 0 THEN <<word>>
    ELSE IF IsSpace(s[1]) THEN <<word>> \o SplitWords(Tail(s), <<>>)
    ELSE SplitWords(Tail(s), Append(word, s[1]))

\* the stop words of extractKeywords
stopWords ==
    {<<"a">>, <<"a", "n">>, <<"t", "h", "e">>, <<"a", "n", "d">>, <<"o", "r">>,
     <<"b", "u", "t">>, <<"i", "n">>, <<"o", "n">>, <<"a", "t">>, <<"t", "o">>,
     <<"f", "o", "r">>, <<"o", "f">>, <<"w", "i", "t", "h">>, <<"b", "y">>,
     <<"f", "r", "o", "m">>, <<"i", "s">>, <<"a", "r", "e">>, <<"w", "a", "s">>,
     <<"w", "e", "r", "e">>, <<"b", "e">>, <<"b", "e", "e", "n">>,
     <<"h", "a", "v", "e">>, <<"h", "a", "s">>, <<"h", "a", "d">>, <<"d", "o">>,
     <<"d", "o", "e", "s">>, <<"d", "i", "d">>, <<"w", "i", "l", "l">>,
     <<"w", "o", "u", "l", "d">>, <<"c", "o", "u", "l", "d">>,
     <<"s", "h", "o", "u", "l", "d">>, <<"m", "a", "y">>, <<"m", "i", "g", "h", "t">>,
     <<"c", "a", "n">>, <<"t", "h", "i", "s">>, <<"t", "h", "a", "t">>,
     <<"t", "h", "e", "s", "e">>, <<"t", "h", "o", "s", "e">>, <<"i">>,
     <<"y", "o", "u">>, <<"h", "e">>, <<"s", "h", "e">>, <<"i", "t">>, <<"w", "e">>,
     <<"t", "h", "e", "y">>, <<"w", "h", "a", "t">>, <<"w", "h", "i", "c", "h">>,
     <<"w", "h", "o">>, <<"h", "o", "w">>, <<"w", "h", "e", "n">>,
     <<"w", "h", "e", "r", "e">>, <<"w", "h", "y">>, <<"a", "l", "l">>,
     <<"a", "n", "y">>, <<"b", "o", "t", "h">>, <<"e", "a", "c", "h">>,
     <<"f", "e", "w">>, <<"m", "o", "r", "e">>, <<"m", "o", "s", "t">>,
     <<"o", "t", "h", "e", "r">>, <<"s", "o", "m", "e">>, <<"s", "u", "c", "h">>,
     <<"n", "o">>, <<"n", "o", "r">>, <<"n", "o", "t">>, <<"o", "n", "l", "y">>,
     <<"o", "w", "n">>, <<"s", "a", "m", "e">>, <<"s", "o">>, <<"t", "h", "a", "n">>,
     <<"t", "o", "o">>, <<"v", "e", "r", "y">>, <<"j", "u", "s", "t">>,
     <<"g", "e", "t">>, <<"l", "i", "k", "e">>}

\* the string that has these characters
StringOf(chars) == CHOOSE s \in DOMAIN Text : Text[s] = chars

extractKeywords(text) ==
    LET words == SplitWords(normalizeText(Text[text]), <<>>)
        kept == SelectSeq(words, LAMBDA w : Len(w) > 2 /\ w \notin stopWords)
    IN  [i \in 1..Len(kept) |-> StringOf(kept[i])]

\* Array.prototype.join(' ') over the texts of a list of strings
RECURSIVE JoinTexts(_)
JoinTexts(names) ==
    IF Len(names) = 0 THEN <<>>
    ELSE IF Len(names) = 1 THEN Text[names[1]]
    ELSE Text[names[1]] \o <<" ">> \o JoinTexts(Tail(names))

-----------------------------------------------------------------------------
(* Keyword scorer *)

searchableFields(resource) ==
    << [field |-> "title",   value |-> Text[resource.title],       weight |-> 3],
       [field |-> "author",  value |-> Text[resource.author],      weight |-> 2],
       [field |-> "topics",  value |-> JoinTexts(resource.topics), weight |-> 2],
       [field |-> "summary",
        value |-> IF IsDefined(resource.summary) THEN Text[ValueOf(resource.summary)]
                  ELSE <<>>,
        weight |-> 1] >>

\* a variant of MatchScore that adds the points of every tier that applies
MatchScoreAdditive(value, keyword, weight) ==
    LET normalizedValue == normalizeText(value)
        normalizedKeyword == normalizeText(keyword)
    IN  (IF normalizedValue = normalizedKeyword THEN 10 * weight ELSE 0)
        + (IF Includes(normalizedValue, normalizedKeyword) THEN 5 * weight ELSE 0)
        + (IF WordBoundaryTest(normalizedValue, normalizedKeyword) THEN 3 * weight ELSE 0)

\* the points one (keyword, field) pair adds
MatchScore(value, keyword, weight) ==
    LET normalizedValue == normalizeText(value)
        normalizedKeyword == normalizeText(keyword)
    IN  IF normalizedValue = normalizedKeyword THEN 10 * weight
        ELSE IF Includes(normalizedValue, normalizedKeyword) THEN 5 * weight
        ELSE IF WordBoundaryTest(normalizedValue, normalizedKeyword) THEN 3 * weight
        ELSE 0

\* the pairs in loop order: keyword by keyword, field by field
RECURSIVE ScorePairs(_, _, _)
ScorePairs(resource, keywords, n) ==
    IF n = 0 THEN <<>>
    ELSE LET fields == searchableFields(resource)
             k == ((n - 1) \div Len(fields)) + 1
             f == ((n - 1) % Len(fields)) + 1
             s == MatchScore(fields[f].value, Text[keywords[k]], fields[f].weight)
             before == ScorePairs(resource, keywords, n - 1)
         IN  IF s > 0
             THEN Append(before, [field |-> fields[f].field, matched |-> keywords[k],
                                  score |-> s])
             ELSE before

RECURSIVE SumScores(_)
SumScores(matches) ==
    IF Len(matches) = 0 THEN 0 ELSE matches[1].score + SumScores(Tail(matches))

calculateKeywordScore(resource, keywords) ==
    LET matches == ScorePairs(resource, keywords, Len(keywords) * 4)
    IN  [score |-> SumScores(matches), matches |-> matches]

-----------------------------------------------------------------------------
(* Filter engine.  A SearchFilters object is the sequence of its own       *)
(* properties <<name, value>>; a property may hold undefined.              *)

ObjectKeys(obj) == [i \in 1..Len(obj) |-> obj[i][1]]

Prop(obj, name) ==
    IF \E i \in 1..Len(obj) : obj[i][1] = name
    THEN obj[CHOOSE i \in 1..Len(obj) : obj[i][1] = name][2]
    ELSE Undefined

\* a variant of HasLength that takes every list that is given, also an empty one
HasLengthOrEmpty(opt) == IsDefined(opt)

\* filters.x?.length is truthy
HasLength(opt) == IsDefined(opt) /\ Len(ValueOf(opt)) > 0

ArrayIncludes(arr, x) == \E i \in 1..Len(arr) : arr[i] = x

ArraySome(arr, P(_)) == \E i \in 1..Len(arr) : P(arr[i])

PassesFilters(resource, filters) ==
    LET categories == Prop(filters, "categories")
        stages == Prop(filters, "stages")
        authors == Prop(filters, "authors")
        types == Prop(filters, "types")
        minLines == Prop(filters, "minLines")
        maxLines == Prop(filters, "maxLines")
    IN  /\ HasLength(categories) =>
              ArraySome(resource.topics, LAMBDA t : ArrayIncludes(ValueOf(categories), t))
        /\ HasLength(stages) =>
              ArraySome(resource.founderStage, LAMBDA s : ArrayIncludes(ValueOf(stages), s))
        /\ HasLength(authors) => ArrayIncludes(ValueOf(authors), resource.author)
        /\ HasLength(types) => ArrayIncludes(ValueOf(types), resource.type)
        /\ ~(IsDefined(minLines) /\ resource.lines < ValueOf(minLines))
        /\ ~(IsDefined(maxLines) /\ resource.lines > ValueOf(maxLines))

\* a variant of applyFilters that adds the passing documents to the list instead of
\* keeping only them
applyFiltersAppending(resources, filters) ==
    resources \o SelectSeq(resources, LAMBDA r : PassesFilters(r, filters))

applyFilters(resources, filters) ==
    SelectSeq(resources, LAMBDA r : PassesFilters(r, filters))

-----------------------------------------------------------------------------
(* Facet aggregator.  A Record<string, number> is a function from the keys *)
(* that were written to their counts.                                      *)

Elements(arr) == {arr[i] : i \in 1..Len(arr)}

\* how many times the loop over resources (and over the tags of each) meets tag
TagCount(resources, Tags(_), tag) ==
    Cardinality({pos \in UNION {{<<i, j>> : j \in 1..Len(Tags(resources[i]))} :
                                i \in 1..Len(resources)} :
                    Tags(resources[pos[1]])[pos[2]] = tag})

calculateFacets(resources) ==
    LET docs == Elements(resources)
        Topics(r) == r.topics
        Stages(r) == r.founderStage
        Author(r) == <<r.author>>
        Type(r) == <<r.type>>
    IN  [categories |-> [t \in UNION {Elements(r.topics) : r \in docs} |->
                            TagCount(resources, Topics, t)],
         authors    |-> [a \in {r.author : r \in docs} |->
                            TagCount(resources, Author, a)],
         stages     |-> [s \in UNION {Elements(r.founderStage) : r \in docs} |->
                            TagCount(resources, Stages, s)],
         types      |-> [t \in {r.type : r \in docs} |->
                            TagCount(resources, Type, t)]]

-----------------------------------------------------------------------------
(* JavaScript objects used as dictionaries *)

DigitValue ==
    "0" :> 0 @@ "1" :> 1 @@ "2" :> 2 @@ "3" :> 3 @@ "4" :> 4 @@
    "5" :> 5 @@ "6" :> 6 @@ "7" :> 7 @@ "8" :> 8 @@ "9" :> 9

RECURSIVE NumericValue(_)
NumericValue(s) ==
    IF Len(s) = 0 THEN 0
    ELSE 10 * NumericValue(SubSeq(s, 1, Len(s) - 1)) + DigitValue[s[Len(s)]]

\* a property key that is an array index: a canonical numeric string
IsArrayIndex(key) ==
    LET s == Text[key] IN
    /\ Len(s) > 0
    /\ \A i \in 1..Len(s) : s[i] \in Digits
    /\ (Len(s) > 1 => s[1] # "0")

RECURSIVE InsertAscending(_, _)
InsertAscending(sorted, key) ==
    IF Len(sorted) = 0 THEN <<key>>
    ELSE IF NumericValue(Text[key]) < NumericValue(Text[sorted[1]])
    THEN <<key>> \o sorted
    ELSE <<sorted[1]>> \o InsertAscending(Tail(sorted), key)

RECURSIVE SortAscending(_)
SortAscending(keys) ==
    IF Len(keys) = 0 THEN <<>>
    ELSE InsertAscending(SortAscending(SubSeq(keys, 1, Len(keys) - 1)), keys[Len(keys)])

\* own property order: array indices in ascending order, then the other keys in
\* insertion order
OwnKeys(insertionOrder) ==
    SortAscending(SelectSeq(insertionOrder, IsArrayIndex))
        \o SelectSeq(insertionOrder, LAMBDA k : ~IsArrayIndex(k))

\* names every object inherits from Object.prototype
ObjectPrototypeKeys == {"constructor"}

-----------------------------------------------------------------------------
(* The corpus: the documents of the index file, in the order of the file *)

Doc8z == [code |-> "8z", title |-> "How to Get Startup Ideas", author |-> "Paul Graham",
          type |-> "essay", topics |-> <<"idea">>, founderStage |-> <<"pre-idea", "idea">>,
          lines |-> 120, summary |-> Undefined]

Doc8g == [code |-> "8g", title |-> "How to get startup ideas", author |-> "Jared Friedman",
          type |-> "video", topics |-> <<"idea">>, founderStage |-> <<"pre-idea">>,
          lines |-> 300, summary |-> Undefined]

DocDU == [code |-> "DU",
          title |-> "Dalton & Michael: Where do great startup ideas come from?",
          author |-> "Dalton Caldwell, Michael Seibel", type |-> "video",
          topics |-> <<"idea", "founders">>, founderStage |-> <<"idea">>,
          lines |-> 450, summary |-> Undefined]

Doc91 == [code |-> "91", title |-> "Why smart people have bad ideas", author |-> "Paul Graham",
          type |-> "essay", topics |-> <<"mindset">>, founderStage |-> <<"all">>,
          lines |-> 80, summary |-> Undefined]

Corpus == <<Doc8z, Doc8g, DocDU, Doc91>>

CorpusCodes == [i \in 1..Len(Corpus) |-> Corpus[i].code]

DocOf(code) == Corpus[CHOOSE i \in 1..Len(Corpus) : Corpus[i].code = code]

CodesWhere(P(_)) == [i \in 1..Len(SelectSeq(Corpus, P)) |-> SelectSeq(Corpus, P)[i].code]

\* the parsed index file (KnowledgeIndex), as scripts/build-index.ts writes it
IndexFile ==
    [resources |-> CorpusCodes,
     categories |->
        [t \in UNION {Elements(d.topics) : d \in Elements(Corpus)} |->
            [count |-> Len(CodesWhere(LAMBDA d : ArrayIncludes(d.topics, t))),
             resources |-> CodesWhere(LAMBDA d : ArrayIncludes(d.topics, t))]],
     searchIndex |->
        [byAuthor |-> [a \in {d.author : d \in Elements(Corpus)} |->
                          CodesWhere(LAMBDA d : d.author = a)],
         byType |-> [t \in {d.type : d \in Elements(Corpus)} |->
                          CodesWhere(LAMBDA d : d.type = t)],
         byStage |-> [s \in UNION {Elements(d.founderStage) : d \in Elements(Corpus)} |->
                          CodesWhere(LAMBDA d : ArrayIncludes(d.founderStage, s))]],
     stats |-> [totalResources |-> Len(Corpus)]]

\* index.resources[code]: the document, an inherited member of Object.prototype
\* (which is no document), or undefined
InheritedMember == [code |-> "Object.prototype"]

ResourceLookup(code) ==
    IF ArrayIncludes(IndexFile.resources, code) THEN Some(DocOf(code))
    ELSE IF code \in ObjectPrototypeKeys THEN Some(InheritedMember)
    ELSE Undefined

IsDocument(meta) == meta \in Elements(Corpus)

\* Object.values(index.resources)
AllResources ==
    LET keys == OwnKeys(IndexFile.resources) IN [i \in 1..Len(keys) |-> DocOf(keys[i])]

-----------------------------------------------------------------------------
(* Search.  A SearchQuery is [keywords, rawQuery, filters, limit, offset]; *)
(* rawQuery, filters and offset are optional properties.                   *)

KeywordLists == {<<>>, <<"startup", "ideas">>, <<"ideas">>, <<"startup">>}

\* the scores of the corpus, computed once
ScoreTable ==
    [r \in Elements(Corpus) |-> [k \in KeywordLists |-> calculateKeywordScore(r, k)]]

ScoreFor(resource, keywords) == ScoreTable[resource][keywords]

\* Array.prototype.sort((a, b) => b.score - a.score): stable, descending
RECURSIVE InsertByScore(_, _)
InsertByScore(sorted, x) ==
    IF Len(sorted) = 0 THEN <<x>>
    ELSE IF x.score > sorted[1].score THEN <<x>> \o sorted
    ELSE <<sorted[1]>> \o InsertByScore(Tail(sorted), x)

RECURSIVE SortByScore(_)
SortByScore(s) ==
    IF Len(s) = 0 THEN <<>>
    ELSE InsertByScore(SortByScore(SubSeq(s, 1, Len(s) - 1)), s[Len(s)])

Min(a, b) == IF a < b THEN a ELSE b
Max(a, b) == IF a > b THEN a ELSE b

\* Array.prototype.slice(start, end)
SliceIndex(i, len) == IF i < 0 THEN Max(len + i, 0) ELSE Min(i, len)

Slice(arr, start, end) ==
    SubSeq(arr, SliceIndex(start, Len(arr)) + 1, SliceIndex(end, Len(arr)))

\* query.offset || 0
OffsetOf(query) == IF IsDefined(query.offset) THEN ValueOf(query.offset) ELSE 0

\* a variant of ScoredResources that leaves the matched documents unsorted
ScoredResourcesUnsorted(candidates, keywords) ==
    SelectSeq([i \in 1..Len(candidates) |->
                  [resource |-> candidates[i],
                   score |-> ScoreFor(candidates[i], keywords).score]],
              LAMBDA sr : sr.score > 0 \/ Len(keywords) = 0)

\* the matched documents with their scores, ranked, before pagination
ScoredResources(candidates, keywords) ==
    IF Len(keywords) > 0
    THEN SortByScore(SelectSeq(
             [i \in 1..Len(candidates) |->
                 [resource |-> candidates[i],
                  score |-> ScoreFor(candidates[i], keywords).score]],
             LAMBDA sr : sr.score > 0 \/ Len(keywords) = 0))
    ELSE [i \in 1..Len(candidates) |-> [resource |-> candidates[i], score |-> 0]]

\* a variant of SearchCompute that computes the facets from the returned page
SearchComputeFacetsOfPage(query, ms) ==
    LET filters == ValueOf(query.filters)
        candidates == IF Len(ObjectKeys(filters)) > 0
                      THEN applyFilters(AllResources, filters)
                      ELSE AllResources
        scoredResources == ScoredResources(candidates, query.keywords)
        page == Slice(scoredResources, OffsetOf(query), OffsetOf(query) + query.limit)
    IN  [resources |-> [i \in 1..Len(page) |-> page[i].resource.code],
         total |-> Len(scoredResources),
         query |-> query,
         facets |-> calculateFacets([i \in 1..Len(page) |-> page[i].resource]),
         executionTimeMs |-> ms]

\* search() past the cache check, for a query that has a filters object;
\* ms is the time the computation takes
SearchCompute(query, ms) ==
    LET filters == ValueOf(query.filters)
        candidates == IF Len(ObjectKeys(filters)) > 0
                      THEN applyFilters(AllResources, filters)
                      ELSE AllResources
        scoredResources == ScoredResources(candidates, query.keywords)
        total == Len(scoredResources)
        page == Slice(scoredResources, OffsetOf(query), OffsetOf(query) + query.limit)
        allMatching ==
            IF Len(query.keywords) > 0
            THEN SelectSeq(candidates, LAMBDA c :
                     \/ \E i \in 1..Len(page) : page[i].resource.code = c.code
                     \/ ScoreFor(c, query.keywords).score > 0)
            ELSE candidates
    IN  [resources |-> [i \in 1..Len(page) |-> page[i].resource.code],
         total |-> total,
         query |-> query,
         facets |-> calculateFacets(allMatching),
         executionTimeMs |-> ms]

\* JSON.stringify of an object given as its properties: undefined ones are left out
StringifyProps(obj) == SelectSeq(obj, LAMBDA p : IsDefined(p[2]))

\* a variant of SerializeQuery that leaves the offset out of the key
SerializeQueryWithoutOffset(query) ==
    StringifyProps(<< <<"keywords", Some(query.keywords)>>,
                      <<"rawQuery", query.rawQuery>>,
                      <<"filters", IF IsDefined(query.filters)
                                   THEN Some(StringifyProps(ValueOf(query.filters)))
                                   ELSE Undefined>>,
                      <<"limit", Some(query.limit)>> >>)

\* JSON.stringify(query), the cache key of search()
SerializeQuery(query) ==
    StringifyProps(<< <<"keywords", Some(query.keywords)>>,
                      <<"rawQuery", query.rawQuery>>,
                      <<"filters", IF IsDefined(query.filters)
                                   THEN Some(StringifyProps(ValueOf(query.filters)))
                                   ELSE Undefined>>,
                      <<"limit", Some(query.limit)>>,
                      <<"offset", query.offset>> >>)

-----------------------------------------------------------------------------
(* SpecLRU: one cache *)

\* the variables of the other specification, which stay as they are
LruUnused ==
    /\ lru = <<>>
    /\ lruMax = 1
    /\ lruTtl = 0
    /\ lruRet = [op |-> "new", key |-> "", ttl |-> Undefined, ret |-> Undefined,
                 removed |-> {}]
    /\ useOrder = <<>>

\* the API layer (route.ts, rate-limit.ts) when a specification leaves it out
RouteUnused ==
    /\ deployed = ""
    /\ kbInstance = 0
    /\ kbInitializing = FALSE
    /\ handler = <<>>
    /\ globalKnowledgeBase = 0
    /\ instances = <<>>

ApiUnused ==
    /\ RouteUnused
    /\ rateLimit = <<>>
    /\ lastCleanup = 0
    /\ rlRet = <<>>

KbUnused ==
    /\ initialized = FALSE
    /\ index = "null"
    /\ resourceCache = <<>>
    /\ searchCache = <<>>
    /\ pc = <<>>
    /\ kbRet = <<>>
    /\ initFailed = FALSE
    /\ overlapped = FALSE
    /\ indexLoads = 0

InitLRU ==
    /\ now = 0
    /\ lru = <<>>
    /\ lruMax \in 1..MaxCacheSize
    /\ lruTtl \in DefaultTtls
    /\ lruRet = [op |-> "new", key |-> "", ttl |-> Undefined, ret |-> Undefined,
                 removed |-> {}]
    /\ useOrder = <<>>
    /\ KbUnused
    /\ ApiUnused
    /\ hasWindow = FALSE

LruGet(k) ==
    LET r == LRUGet(lru, k, now) IN
    /\ lru' = r.cache
    /\ lruRet' = [op |-> "get", key |-> k, ttl |-> Undefined, ret |-> r.ret,
                  removed |-> Removed(lru, r.cache)]
    /\ useOrder' = IF IsDefined(r.ret) THEN Touch(useOrder, k)
                   ELSE Without(useOrder, k)
    /\ UNCHANGED <<kbVars, apiVars, now, lruMax, lruTtl>>

LruSet(k, v, ttl) ==
    LET c == LRUSet(lru, k, v, ttl, now, lruMax, lruTtl) IN
    /\ lru' = c
    /\ lruRet' = [op |-> "set", key |-> k, ttl |-> ttl, ret |-> Undefined,
                  removed |-> Removed(lru, c)]
    /\ useOrder' = IF MapHas(lru, k) THEN Restrict(useOrder, MapKeys(c))
                   ELSE Append(Restrict(useOrder, MapKeys(c) \ {k}), k)
    /\ UNCHANGED <<kbVars, apiVars, now, lruMax, lruTtl>>

LruClear ==
    /\ lru' = LRUClear(lru)
    /\ lruRet' = [op |-> "clear", key |-> "", ttl |-> Undefined, ret |-> Undefined,
                  removed |-> Removed(lru, <<>>)]
    /\ useOrder' = <<>>
    /\ UNCHANGED <<kbVars, apiVars, now, lruMax, lruTtl>>

LruTick ==
    /\ now < MaxTime
    /\ now' = now + 1
    /\ lruRet' = [op |-> "tick", key |-> "", ttl |-> Undefined, ret |-> Undefined,
                  removed |-> {}]
    /\ UNCHANGED <<kbVars, apiVars, lru, lruMax, lruTtl, useOrder>>

NextLRU ==
    \/ \E k \in CacheKeys : LruGet(k)
    \/ \E k \in CacheKeys, v \in CacheValues, ttl \in OptTtls : LruSet(k, v, ttl)
    \/ LruClear
    \/ LruTick

SpecLRU == InitLRU /\ [][NextLRU]_vars

-----------------------------------------------------------------------------
(* KnowledgeBase *)

NullIndex == "null"
LoadedIndex == "knowledge-index.json"

\* an index file whose text parses to an object with no property
EmptyIndex == "{}"

\* what JSON.parse(data) or response.json() gives: the index as built, or another
\* JSON value, of which null fails the test of ensureInitialized() and {} passes it
ParsedIndexes == {LoadedIndex, NullIndex, EmptyIndex}

Idle == [at |-> "idle", code |-> "", meta |-> Undefined]

\* ensureInitialized() passes
Ready == initialized /\ index # NullIndex

NotInitialized == "Error: KnowledgeBase not initialized. Call initialize() first."

InitializeError == "Error: Failed to load knowledge index"

\* new ResourceNotFoundError(code)
ResourceNotFoundError(code) ==
    [name |-> "ResourceNotFoundError", message |-> <<"Resource not found: ", code>>,
     code |-> "RESOURCE_NOT_FOUND", statusCode |-> 404]

\* obj[key] on a dictionary of the index: an own property, an inherited member of
\* Object.prototype, or undefined
DictLookup(dict, key) ==
    IF key \in DOMAIN dict THEN Some(dict[key])
    ELSE IF key \in ObjectPrototypeKeys THEN Some(InheritedMember)
    ELSE Undefined

\* getResourcesByCodes(codes)
ResourcesByCodes(codes) ==
    LET found == SelectSeq([i \in 1..Len(codes) |-> ResourceLookup(codes[i])], IsDefined)
    IN  [i \in 1..Len(found) |-> ValueOf(found[i]).code]

\* getResourcesByAuthor / ByType / ByStage: (dict[key] || []) handed to
\* getResourcesByCodes. A value found under a key the dictionary does not own is
\* the inherited member, a function: codes.map is not a function
ResourcesByKey(dict, key) ==
    LET codes == DictLookup(dict, key) IN
    IF ~IsDefined(codes) THEN [outcome |-> "ok", ret |-> <<>>]
    ELSE IF key \notin DOMAIN dict THEN [outcome |-> "TypeError", ret |-> <<>>]
    ELSE [outcome |-> "ok", ret |-> ResourcesByCodes(ValueOf(codes))]

\* the read-only accessors, past ensureInitialized(), on the index {}: a property
\* of the index is undefined, and reading a member of undefined throws
EmptyAccessor(op, arg) ==
    CASE op = "getResourcesByCodes" ->
            IF Len(arg) = 0 THEN [outcome |-> "ok", ret |-> <<>>]
            ELSE [outcome |-> "TypeError", ret |-> <<>>]
      [] op = "getStats" -> [outcome |-> "ok", ret |-> Undefined]
      [] OTHER -> [outcome |-> "TypeError", ret |-> <<>>]

\* the read-only accessors, past ensureInitialized(), on the index as built
Accessor(op, arg) ==
    CASE op = "getAllResources" ->
            [outcome |-> "ok", ret |-> [i \in 1..Len(AllResources) |-> AllResources[i].code]]
      [] op = "getResourceMeta" ->
            [outcome |-> "ok", ret |-> ResourceLookup(arg)]
      [] op = "getResourcesByCodes" ->
            [outcome |-> "ok", ret |-> ResourcesByCodes(arg)]
      [] op = "getResourcesByCategory" ->
            LET categoryData == DictLookup(IndexFile.categories, arg) IN
            IF ~IsDefined(categoryData) THEN [outcome |-> "ok", ret |-> <<>>]
            ELSE IF arg \notin DOMAIN IndexFile.categories
            THEN [outcome |-> "TypeError", ret |-> <<>>]
            ELSE [outcome |-> "ok", ret |-> ResourcesByCodes(ValueOf(categoryData).resources)]
      [] op = "getResourcesByAuthor" -> ResourcesByKey(IndexFile.searchIndex.byAuthor, arg)
      [] op = "getResourcesByType" -> ResourcesByKey(IndexFile.searchIndex.byType, arg)
      [] op = "getResourcesByStage" -> ResourcesByKey(IndexFile.searchIndex.byStage, arg)
      [] op = "getCategories" ->
            [outcome |-> "ok",
             ret |-> [c \in DOMAIN IndexFile.categories |-> IndexFile.categories[c].count]]
      [] op = "getStats" -> [outcome |-> "ok", ret |-> IndexFile.stats]

\* the body read at meta.filePath (undefined for a member of Object.prototype), the
\* text of the error page of the server, and the placeholder of the fallback
FileContent(meta) ==
    [kind |-> "file", of |-> IF IsDocument(meta) THEN meta.code ELSE "undefined"]

ErrorPageContent == [kind |-> "error page", of |-> "Not Found"]

PlaceholderContent(meta) ==
    [kind |-> "placeholder", of |-> <<meta.title, meta.author, meta.type, meta.topics>>]

\* {...meta, content}: the properties of the document, named here by its code; a
\* member of Object.prototype has no enumerable property of its own
Resource(meta, content) ==
    [meta |-> IF IsDocument(meta) THEN meta.code ELSE "", content |-> content]

-----------------------------------------------------------------------------
(* SpecKB: one KnowledgeBase instance and the requests that use it *)

\* the inputs of the requests
Procs == {"p1", "p2"}

ExecTimes == {0, 1}

Query(keywords, filters, limit, offset) ==
    [keywords |-> keywords, rawQuery |-> Undefined, filters |-> filters,
     limit |-> limit, offset |-> offset]

NoFilters == <<>>

\* the filters object the GET handler builds when no filter parameter is given
UnsetFilters ==
    << <<"categories", Undefined>>, <<"stages", Undefined>>, <<"authors", Undefined>>,
       <<"types", Undefined>> >>

IdeaFilters == << <<"categories", Some(<<"idea">>)>> >>

\* the configuration the instance is constructed with
CacheSize == 1   \* config.cacheSize
CacheTtl == 1    \* config.cacheTtl
DefaultLimit == 10   \* config.defaultLimit

InitKB ==
    /\ now = 0
    /\ initialized = FALSE
    /\ index = NullIndex
    /\ resourceCache = <<>>
    /\ searchCache = <<>>
    /\ pc = [p \in Procs |-> Idle]
    /\ kbRet = [op |-> "new", arg |-> "", phase |-> "call", io |-> "", ready |-> FALSE,
                outcome |-> "ok", ret |-> <<>>]
    /\ initFailed = FALSE
    /\ overlapped = FALSE
    /\ indexLoads = 0
    /\ LruUnused
    /\ ApiUnused
    /\ hasWindow = FALSE   \* the class runs in Node, as under src/app/api

\* a call returned, threw, or suspended at an await ("pending")
Returned(op, arg, outcome, ret) ==
    [op |-> op, arg |-> arg, phase |-> "call", io |-> "", ready |-> Ready,
     outcome |-> outcome, ret |-> ret]

\* a suspended call resumed after its collaborator did io, and returned or threw
Resumed(op, arg, io, outcome, ret) ==
    [op |-> op, arg |-> arg, phase |-> "resume", io |-> io, ready |-> Ready,
     outcome |-> outcome, ret |-> ret]

\* a variant of Initialize without the early return of an initialized instance
InitializeWithoutCheck(p) ==
    /\ pc[p] = Idle
    /\ pc' = [pc EXCEPT ![p] = [at |-> "initialize", code |-> "", meta |-> Undefined]]
    /\ overlapped' = (overlapped \/ \E o \in Procs : pc[o].at = "initialize")
    /\ kbRet' = Returned("initialize", "", "pending", <<>>)
    /\ UNCHANGED <<lruVars, apiVars, now, initialized, index, resourceCache, searchCache,
                   initFailed, indexLoads>>

\* initialize(), up to its first await
Initialize(p) ==
    /\ pc[p] = Idle
    /\ IF initialized
       THEN /\ kbRet' = Returned("initialize", "", "ok", <<>>)
            /\ UNCHANGED <<pc, overlapped>>
       ELSE /\ pc' = [pc EXCEPT ![p] = [at |-> "initialize", code |-> "", meta |-> Undefined]]
            /\ overlapped' = (overlapped \/ \E o \in Procs : pc[o].at = "initialize")
            /\ kbRet' = Returned("initialize", "", "pending", <<>>)
    /\ UNCHANGED <<lruVars, apiVars, now, initialized, index, resourceCache, searchCache,
                   initFailed, indexLoads>>

\* initialize(): the index was read and parsed
InitializeLoaded(p, parsed) ==
    /\ pc[p].at = "initialize"
    /\ index' = parsed
    /\ initialized' = TRUE
    /\ indexLoads' = indexLoads + 1
    /\ pc' = [pc EXCEPT ![p] = Idle]
    /\ kbRet' = Resumed("initialize", "", "loaded", "ok", <<>>)
    /\ UNCHANGED <<lruVars, apiVars, now, resourceCache, searchCache, initFailed,
                   overlapped>>

\* initialize(): no path could be read and the fetch failed, or the file did not parse
InitializeFailed(p) ==
    /\ pc[p].at = "initialize"
    /\ pc' = [pc EXCEPT ![p] = Idle]
    /\ initFailed' = TRUE
    /\ kbRet' = Resumed("initialize", "", "failed", InitializeError, <<>>)
    /\ UNCHANGED <<lruVars, apiVars, now, initialized, index, resourceCache, searchCache,
                   overlapped, indexLoads>>

\* getAllResources, getResourceMeta, getResourcesBy..., getCategories, getStats
Access(p, op, arg) ==
    /\ pc[p] = Idle
    /\ kbRet' = IF ~Ready
                THEN Returned(op, arg, NotInitialized, <<>>)
                ELSE IF index = EmptyIndex
                THEN Returned(op, arg, EmptyAccessor(op, arg).outcome,
                              EmptyAccessor(op, arg).ret)
                ELSE Returned(op, arg, Accessor(op, arg).outcome, Accessor(op, arg).ret)
    /\ UNCHANGED <<lruVars, apiVars, now, initialized, index, resourceCache, searchCache, pc,
                   initFailed, overlapped, indexLoads>>

\* loadResource(code), up to its first await
LoadResource(p, code) ==
    /\ pc[p] = Idle
    /\ IF ~Ready
       THEN /\ kbRet' = Returned("loadResource", code, NotInitialized, <<>>)
            /\ UNCHANGED <<resourceCache, pc>>
       ELSE LET cached == LRUGet(resourceCache, code, now)
                meta == ResourceLookup(code)
            IN  /\ resourceCache' = cached.cache
                /\ IF IsDefined(cached.ret)
                   THEN /\ kbRet' = Returned("loadResource", code, "ok", ValueOf(cached.ret))
                        /\ UNCHANGED pc
                   ELSE IF index = EmptyIndex
                   THEN \* this.index.resources is undefined
                        /\ kbRet' = Returned("loadResource", code, "TypeError", <<>>)
                        /\ UNCHANGED pc
                   ELSE IF ~IsDefined(meta)
                   THEN /\ kbRet' = Returned("loadResource", code, "ResourceNotFoundError",
                                             ResourceNotFoundError(code))
                        /\ UNCHANGED pc
                   ELSE /\ pc' = [pc EXCEPT ![p] = [at |-> "loadResource", code |-> code,
                                                    meta |-> meta]]
                        /\ kbRet' = Returned("loadResource", code, "pending", <<>>)
    /\ UNCHANGED <<lruVars, apiVars, now, initialized, index, searchCache, initFailed,
                   overlapped, indexLoads>>

\* what the read of the body gives: the text of the document; an empty text; an
\* answer of the server that is not ok (status 404) with the text of its error
\* page, the files being unreadable; or a failure of every attempt (no readable
\* file and a fetch that rejects)
Fetched == {"text", "empty", "notOk", "failed"}

\* the catch block of loadResource: the placeholder Resource of a document, which is
\* not stored; for a member of Object.prototype meta.topics.join throws
LoadResourceFallback(code, meta, fetched) ==
    IF IsDocument(meta)
    THEN Resumed("loadResource", code, fetched, "ok", Resource(meta, PlaceholderContent(meta)))
    ELSE Resumed("loadResource", code, fetched, "TypeError", <<>>)

\* loadResource(code), after the body was read or could not be read
LoadResourceSettle(p, fetched) ==
    /\ pc[p].at = "loadResource"
    /\ LET code == pc[p].code
           meta == ValueOf(pc[p].meta)
           content == IF fetched = "text" THEN FileContent(meta) ELSE ErrorPageContent
       IN  IF hasWindow
           THEN \* response.text() of whatever the server answered, response.ok unread
                IF fetched \in {"text", "notOk"}
                THEN /\ resourceCache' = LRUSet(resourceCache, code, Resource(meta, content),
                                                Undefined, now, CacheSize, CacheTtl)
                     /\ kbRet' = Resumed("loadResource", code, fetched, "ok",
                                         Resource(meta, content))
                ELSE /\ kbRet' = LoadResourceFallback(code, meta, fetched)
                     /\ UNCHANGED resourceCache
           ELSE IF ~IsDocument(meta)
           THEN \* path.resolve(contentPath, undefined) throws, and so does
                \* meta.topics.join in the catch block
                /\ kbRet' = Resumed("loadResource", code, fetched, "TypeError", <<>>)
                /\ UNCHANGED resourceCache
           ELSE IF fetched = "text"
           THEN /\ resourceCache' = LRUSet(resourceCache, code, Resource(meta, content),
                                           Undefined, now, CacheSize, CacheTtl)
                /\ kbRet' = Resumed("loadResource", code, fetched, "ok",
                                    Resource(meta, content))
           ELSE /\ kbRet' = LoadResourceFallback(code, meta, fetched)
                /\ UNCHANGED resourceCache
    /\ pc' = [pc EXCEPT ![p] = Idle]
    /\ UNCHANGED <<lruVars, apiVars, now, initialized, index, searchCache, initFailed,
                   overlapped, indexLoads>>

\* a variant of SearchCall that stores the cached result again when it serves it
SearchCallRestoring(p, op, arg, query, ms) ==
    /\ pc[p] = Idle
    /\ now + ms <= MaxTime
    /\ IF ~Ready
       THEN /\ kbRet' = Returned(op, arg, NotInitialized, <<>>)
            /\ UNCHANGED <<now, searchCache>>
       ELSE LET cacheKey == SerializeQuery(query)
                cached == LRUGet(searchCache, cacheKey, now)
            IN  IF IsDefined(cached.ret)
                THEN /\ searchCache' = LRUSet(cached.cache, cacheKey, ValueOf(cached.ret),
                                              Undefined, now, CacheSize, CacheTtl)
                     /\ kbRet' = Returned(op, arg, "ok", ValueOf(cached.ret))
                     /\ UNCHANGED now
                ELSE IF index = EmptyIndex \/ ~IsDefined(query.filters)
                THEN /\ searchCache' = cached.cache
                     /\ kbRet' = Returned(op, arg, "TypeError", <<>>)
                     /\ UNCHANGED now
                ELSE /\ now' = now + ms
                     /\ searchCache' = LRUSet(cached.cache, cacheKey,
                                              SearchCompute(query, ms), Undefined,
                                              now + ms, CacheSize, CacheTtl)
                     /\ kbRet' = Returned(op, arg, "ok", SearchCompute(query, ms))
    /\ UNCHANGED <<lruVars, apiVars, initialized, index, resourceCache, pc, initFailed,
                   overlapped, indexLoads>>

\* search(query); the computation takes ms
SearchCall(p, op, arg, query, ms) ==
    /\ pc[p] = Idle
    /\ now + ms <= MaxTime
    /\ IF ~Ready
       THEN /\ kbRet' = Returned(op, arg, NotInitialized, <<>>)
            /\ UNCHANGED <<now, searchCache>>
       ELSE LET cacheKey == SerializeQuery(query)
                cached == LRUGet(searchCache, cacheKey, now)
            IN  IF IsDefined(cached.ret)
                THEN /\ searchCache' = cached.cache
                     /\ kbRet' = Returned(op, arg, "ok", ValueOf(cached.ret))
                     /\ UNCHANGED now
                ELSE IF index = EmptyIndex \/ ~IsDefined(query.filters)
                THEN \* Object.values(undefined) in getAllResources, or
                     \* Object.keys(undefined)
                     /\ searchCache' = cached.cache
                     /\ kbRet' = Returned(op, arg, "TypeError", <<>>)
                     /\ UNCHANGED now
                ELSE /\ now' = now + ms
                     /\ searchCache' = LRUSet(cached.cache, cacheKey,
                                              SearchCompute(query, ms), Undefined,
                                              now + ms, CacheSize, CacheTtl)
                     /\ kbRet' = Returned(op, arg, "ok", SearchCompute(query, ms))
    /\ UNCHANGED <<lruVars, apiVars, initialized, index, resourceCache, pc, initFailed,
                   overlapped, indexLoads>>

Search(p, query, ms) == SearchCall(p, "search", query, query, ms)

\* quickSearch(query, options)
QuickSearch(p, text, options, ms) ==
    SearchCall(p, "quickSearch", <<text, options>>,
               [keywords |-> extractKeywords(text),
                rawQuery |-> Some(text),
                filters |-> IF IsDefined(Prop(options, "filters"))
                            THEN Prop(options, "filters") ELSE Some(<<>>),
                limit |-> IF IsDefined(Prop(options, "limit"))
                             /\ ValueOf(Prop(options, "limit")) # 0
                          THEN ValueOf(Prop(options, "limit")) ELSE DefaultLimit,
                offset |-> Undefined],
               ms)

\* a clearCache() that leaves the search cache alone
ClearCacheResourceOnly(p) ==
    /\ pc[p] = Idle
    /\ resourceCache' = LRUClear(resourceCache)
    /\ kbRet' = Returned("clearCache", "", "ok", <<>>)
    /\ UNCHANGED <<lruVars, apiVars, now, initialized, index, searchCache, pc, initFailed,
                   overlapped, indexLoads>>

\* clearCache()
ClearCache(p) ==
    /\ pc[p] = Idle
    /\ resourceCache' = LRUClear(resourceCache)
    /\ searchCache' = LRUClear(searchCache)
    /\ kbRet' = Returned("clearCache", "", "ok", <<>>)
    /\ UNCHANGED <<lruVars, apiVars, now, initialized, index, pc, initFailed, overlapped,
                   indexLoads>>

\* getCacheStats()
GetCacheStats(p) ==
    /\ pc[p] = Idle
    /\ kbRet' = Returned("getCacheStats", "", "ok",
                         [resourceCacheSize |-> LRUSize(resourceCache),
                          searchCacheSize |-> LRUSize(searchCache)])
    /\ UNCHANGED <<lruVars, apiVars, now, initialized, index, resourceCache, searchCache, pc,
                   initFailed, overlapped, indexLoads>>

\* time passes
KbTick ==
    /\ now < MaxTime
    /\ now' = now + 1
    /\ kbRet' = Returned("tick", "", "ok", <<>>)
    /\ UNCHANGED <<lruVars, apiVars, initialized, index, resourceCache, searchCache, pc,
                   initFailed, overlapped, indexLoads>>

\* SpecKB: the instance from its construction on
KBLoadCodes == {"8z", "zz"}

KBQueries == {Query(<<"startup", "ideas">>, Some(NoFilters), 3, Undefined)}

KBQuickSearches == {<<"startup ideas", <<>>>>}

\* here a search completes within one unit of the clock
KBExecTimes == {0}

\* and the read of a body gives its text or fails
KBFetched == {"text", "failed"}

KBAccessorCalls ==
    {<<"getAllResources", "">>, <<"getCategories", "">>, <<"getStats", "">>,
     <<"getResourceMeta", "8z">>, <<"getResourcesByCodes", <<"zz", "91", "8z">>>>,
     <<"getResourcesByCategory", "idea">>, <<"getResourcesByAuthor", "Jared Friedman">>,
     <<"getResourcesByType", "essay">>, <<"getResourcesByStage", "idea">>}

NextKB ==
    \/ \E p \in Procs : Initialize(p)
    \/ \E p \in Procs, parsed \in ParsedIndexes : InitializeLoaded(p, parsed)
    \/ \E p \in Procs : InitializeFailed(p)
    \/ \E p \in Procs, call \in KBAccessorCalls : Access(p, call[1], call[2])
    \/ \E p \in Procs, code \in KBLoadCodes : LoadResource(p, code)
    \/ \E p \in Procs, fetched \in KBFetched : LoadResourceSettle(p, fetched)
    \/ \E p \in Procs, query \in KBQueries, ms \in KBExecTimes : Search(p, query, ms)
    \/ \E p \in Procs, call \in KBQuickSearches, ms \in KBExecTimes :
            QuickSearch(p, call[1], call[2], ms)
    \/ \E p \in Procs : ClearCache(p)
    \/ \E p \in Procs : GetCacheStats(p)
    \/ KbTick

SpecKB == InitKB /\ [][NextKB]_vars

\* a KnowledgeBase whose initialize() has completed, with empty caches
InitReady ==
    /\ now = 0
    /\ initialized = TRUE
    /\ index = LoadedIndex
    /\ resourceCache = <<>>
    /\ searchCache = <<>>
    /\ pc = [p \in Procs |-> Idle]
    /\ kbRet = [op |-> "initialize", arg |-> "", phase |-> "resume", io |-> "loaded",
                ready |-> FALSE, outcome |-> "ok", ret |-> <<>>]
    /\ initFailed = FALSE
    /\ overlapped = FALSE
    /\ indexLoads = 1
    /\ LruUnused
    /\ ApiUnused
    /\ hasWindow \in BOOLEAN

\* SpecLoad: the lookups of a ready instance
LoadCodes == {"8z", "91", "zz", "constructor"}

\* the index lookups called on it: keys present in the index (with several
\* documents and with one), keys absent from it, and a name every object inherits
LookupCalls ==
    {<<"getResourcesByCodes", <<"zz", "91", "8z">>>>, <<"getResourcesByCodes", <<"zz">>>>,
     <<"getResourcesByCodes", <<"8z", "constructor">>>>, <<"getResourcesByCodes", <<>>>>,
     <<"getResourcesByCategory", "idea">>, <<"getResourcesByCategory", "zz">>,
     <<"getResourcesByCategory", "constructor">>,
     <<"getResourcesByCategory", "mindset">>,
     <<"getResourcesByAuthor", "Paul Graham">>, <<"getResourcesByAuthor", "zz">>,
     <<"getResourcesByAuthor", "Jared Friedman">>,
     <<"getResourcesByAuthor", "Dalton Caldwell, Michael Seibel">>,
     <<"getResourcesByAuthor", "constructor">>,
     <<"getResourcesByType", "essay">>, <<"getResourcesByType", "video">>,
     <<"getResourcesByType", "zz">>, <<"getResourcesByType", "constructor">>,
     <<"getResourcesByStage", "idea">>, <<"getResourcesByStage", "all">>,
     <<"getResourcesByStage", "pre-idea">>, <<"getResourcesByStage", "zz">>,
     <<"getResourcesByStage", "constructor">>}

NextLoad ==
    \/ \E p \in Procs, code \in LoadCodes : LoadResource(p, code)
    \/ \E p \in Procs, call \in LookupCalls : Access(p, call[1], call[2])
    \/ \E p \in Procs, fetched \in Fetched : LoadResourceSettle(p, fetched)
    \/ \E p \in Procs : ClearCache(p)
    \/ \E p \in Procs : GetCacheStats(p)
    \/ KbTick

SpecLoad == InitReady /\ [][NextLoad]_vars

\* SpecSearch: the searches of a ready instance
SearchQueries ==
    {Query(<<>>, Some(NoFilters), 2, Some(2)),
     Query(<<"startup", "ideas">>, Some(NoFilters), 3, Undefined),
     Query(<<"startup", "ideas">>, Some(UnsetFilters), 3, Undefined),
     Query(<<"ideas">>, Some(IdeaFilters), 1, Some(0)),
     Query(<<"ideas">>, Some(IdeaFilters), 1, Some(1)),
     Query(<<"startup", "ideas">>, Undefined, 3, Undefined),
     Query(<<"ideas">>, Some(NoFilters), 2, Some(0)),
     Query(<<"ideas">>, Some(NoFilters), -1, Some(0)),
     Query(<<"startup">>, Some(NoFilters), 10, Undefined),
     Query(<<>>, Some(NoFilters), 10, Undefined)}

SearchLoadCodes == {"8z"}

Requester == "p1"

NextSearch ==
    \/ \E query \in SearchQueries, ms \in ExecTimes : Search(Requester, query, ms)
    \/ \E code \in SearchLoadCodes : LoadResource(Requester, code)
    \/ \E fetched \in Fetched : LoadResourceSettle(Requester, fetched)
    \/ ClearCache(Requester)
    \/ KbTick

SpecSearch == InitReady /\ [][NextSearch]_vars

-----------------------------------------------------------------------------
(* SpecRoute: the requests of the chat route (app/api/chat/route.ts), in either *)
(* of its two versions: the plain one (getKB of lines 36-47) and the streaming  *)
(* one (getKB of lines 433-469, with kbInitializing and a timeout).  The        *)
(* instances are those that getKnowledgeBase() constructs; instances[i] holds   *)
(* the initialized flag and the index of instance i and the number of           *)
(* initialize() calls on it that nobody awaits any more.  A request handler is  *)
(* idle, awaits inside getKB ("waiting" on kbInitializing, "initializing" in    *)
(* the race or the await of initialize(), "resumed" when that has settled and   *)
(* the continuation of getKB is queued, "settling" when getKB's promise has     *)
(* settled and the continuation of the handler is queued), or has got the       *)
(* instance.                                                                    *)

RouteVersions == {"plain", "streaming"}

MaxInstances == 2   \* getKnowledgeBase() constructs at most MaxInstances instances
MaxAbandoned == 1   \* at most MaxAbandoned initialize() calls of an instance lose the race

InitTimeout == "Error: Knowledge base initialization timeout"

NewInstance == [initialized |-> FALSE, index |-> NullIndex, abandoned |-> 0]

IdleHandler == [at |-> "idle", kb |-> 0, outcome |-> ""]

\* a call of the route layer returned, threw or suspended
RouteReturned(op, p, outcome) == [op |-> op, arg |-> p, outcome |-> outcome]

\* the fields of the one instance of the other specifications, unused here, and
\* the environment, which no request changes
kbFields == <<initialized, index, resourceCache, searchCache, pc, initFailed, overlapped,
              indexLoads, hasWindow>>

InitRoute ==
    /\ now = 0
    /\ initialized = FALSE
    /\ index = NullIndex
    /\ resourceCache = <<>>
    /\ searchCache = <<>>
    /\ pc = <<>>
    /\ kbRet = RouteReturned("", "", "ok")
    /\ initFailed = FALSE
    /\ overlapped = FALSE
    /\ indexLoads = 0
    /\ LruUnused
    /\ deployed \in RouteVersions
    /\ kbInstance = 0
    /\ kbInitializing = FALSE
    /\ handler = [p \in Procs |-> IdleHandler]
    /\ globalKnowledgeBase = 0
    /\ instances = <<>>
    /\ rateLimit = <<>>
    /\ lastCleanup = 0
    /\ rlRet = <<>>
    /\ hasWindow = FALSE

\* ensureInitialized() of instance i passes
InstanceReady(i) == instances[i].initialized /\ instances[i].index # NullIndex

\* continuations of settled promises are queued: they run before any timer or any
\* completion of a read
ContinuationQueued == \E p \in Procs : handler[p].at \in {"resumed", "settling"}

\* getKnowledgeBase(): the instance it returns and the instances afterwards
getKnowledgeBase ==
    IF globalKnowledgeBase = 0
    THEN [id |-> Len(instances) + 1, instances |-> Append(instances, NewInstance)]
    ELSE [id |-> globalKnowledgeBase, instances |-> instances]

\* resetKnowledgeBase()
ResetKnowledgeBase ==
    /\ globalKnowledgeBase # 0
    /\ globalKnowledgeBase' = 0
    /\ kbRet' = RouteReturned("resetKnowledgeBase", "", "ok")
    /\ UNCHANGED <<now, lruVars, limitVars, kbFields, deployed, kbInstance, kbInitializing,
                   handler, instances>>

\* kbInstance = getKnowledgeBase(...) and the call of kbInstance.initialize(), which
\* returns at once on an initialized instance and otherwise starts to read the index
CreateAndInitialize(p) ==
    LET got == getKnowledgeBase IN
    /\ globalKnowledgeBase = 0 => Len(instances) < MaxInstances
    /\ kbInstance' = got.id
    /\ globalKnowledgeBase' = got.id
    /\ instances' = got.instances
    /\ handler' = [handler EXCEPT ![p] =
                      IF got.instances[got.id].initialized
                      THEN [at |-> "resumed", kb |-> got.id, outcome |-> "ok"]
                      ELSE [at |-> "initializing", kb |-> got.id, outcome |-> ""]]
    /\ kbRet' = RouteReturned("getKB", p, "pending")

\* a request calls getKB(), which runs to its return or to its first await
GetKB(p) ==
    /\ handler[p].at = "idle"
    /\ IF deployed = "plain"
       THEN IF kbInstance = 0
            THEN /\ CreateAndInitialize(p)
                 /\ UNCHANGED kbInitializing
            ELSE /\ handler' = [handler EXCEPT ![p] =
                                   [at |-> "settling", kb |-> kbInstance, outcome |-> "ok"]]
                 /\ kbRet' = RouteReturned("getKB", p, "pending")
                 /\ UNCHANGED <<kbInstance, kbInitializing, globalKnowledgeBase, instances>>
       ELSE IF kbInstance # 0
            THEN /\ handler' = [handler EXCEPT ![p] =
                                   [at |-> "settling", kb |-> kbInstance, outcome |-> "ok"]]
                 /\ kbRet' = RouteReturned("getKB", p, "pending")
                 /\ UNCHANGED <<kbInstance, kbInitializing, globalKnowledgeBase, instances>>
            ELSE IF kbInitializing
            THEN /\ handler' = [handler EXCEPT ![p] =
                                   [at |-> "waiting", kb |-> 0, outcome |-> ""]]
                 /\ kbRet' = RouteReturned("getKB", p, "pending")
                 /\ UNCHANGED <<kbInstance, kbInitializing, globalKnowledgeBase, instances>>
            ELSE /\ CreateAndInitialize(p)
                 /\ kbInitializing' = TRUE
    /\ UNCHANGED <<now, lruVars, limitVars, kbFields, deployed>>

\* the initialize() that getKB awaits has read and parsed the index
GetKBResolved(p, parsed) ==
    /\ handler[p].at = "initializing"
    /\ ~ContinuationQueued
    /\ instances' = [instances EXCEPT ![handler[p].kb].index = parsed,
                                      ![handler[p].kb].initialized = TRUE]
    /\ handler' = [handler EXCEPT ![p].at = "resumed", ![p].outcome = "ok"]
    /\ kbRet' = RouteReturned("initialize", p, "ok")
    /\ UNCHANGED <<now, lruVars, limitVars, kbFields, deployed, kbInstance, kbInitializing,
                   globalKnowledgeBase>>

\* the initialize() that getKB awaits throws
GetKBFailed(p) ==
    /\ handler[p].at = "initializing"
    /\ ~ContinuationQueued
    /\ handler' = [handler EXCEPT ![p].at = "resumed", ![p].outcome = InitializeError]
    /\ kbRet' = RouteReturned("initialize", p, InitializeError)
    /\ UNCHANGED <<now, lruVars, limitVars, kbFields, deployed, kbInstance, kbInitializing,
                   globalKnowledgeBase, instances>>

\* the timeout wins the race of the streaming version, while the initialize() that
\* getKB started goes on
GetKBTimeout(p) ==
    /\ deployed = "streaming"
    /\ handler[p].at = "initializing"
    /\ ~ContinuationQueued
    /\ instances[handler[p].kb].abandoned < MaxAbandoned
    /\ instances' = [instances EXCEPT ![handler[p].kb].abandoned = @ + 1]
    /\ handler' = [handler EXCEPT ![p].at = "resumed", ![p].outcome = InitTimeout]
    /\ kbRet' = RouteReturned("setTimeout", p, InitTimeout)
    /\ UNCHANGED <<now, lruVars, limitVars, kbFields, deployed, kbInstance, kbInitializing,
                   globalKnowledgeBase>>

\* the requests that await the promise kbInitializing settle with it
Settled(h, p, with) ==
    [q \in DOMAIN h |-> IF q = p \/ h[q].at = "waiting" THEN with ELSE h[q]]

\* getKB goes on after its await: it returns kbInstance, or (streaming version)
\* forgets the instance and throws; the streaming version clears kbInitializing
GetKBContinue(p) ==
    /\ handler[p].at = "resumed"
    /\ IF deployed = "plain"
       THEN /\ handler' = [handler EXCEPT ![p] =
                              [at |-> "settling",
                               kb |-> IF handler[p].outcome = "ok" THEN kbInstance ELSE 0,
                               outcome |-> handler[p].outcome]]
            /\ UNCHANGED <<kbInstance, kbInitializing>>
       ELSE IF handler[p].outcome = "ok"
       THEN /\ handler' = Settled(handler, p,
                                  [at |-> "settling", kb |-> kbInstance, outcome |-> "ok"])
            /\ kbInitializing' = FALSE
            /\ UNCHANGED kbInstance
       ELSE /\ handler' = Settled(handler, p,
                                  [at |-> "settling", kb |-> 0,
                                   outcome |-> handler[p].outcome])
            /\ kbInstance' = 0
            /\ kbInitializing' = FALSE
    /\ kbRet' = RouteReturned("getKB", p, "settled")
    /\ UNCHANGED <<now, lruVars, limitVars, kbFields, deployed, globalKnowledgeBase, instances>>

\* the request goes on after `await getKB()`: it holds the instance, or getKB threw
GetKBSettle(p) ==
    /\ handler[p].at = "settling"
    /\ handler' = [handler EXCEPT ![p] =
                      IF handler[p].outcome = "ok"
                      THEN [at |-> "got", kb |-> handler[p].kb, outcome |-> "ok"]
                      ELSE IdleHandler]
    /\ kbRet' = RouteReturned("getKB", p, handler[p].outcome)
    /\ UNCHANGED <<now, lruVars, limitVars, kbFields, deployed, kbInstance, kbInitializing,
                   globalKnowledgeBase, instances>>

\* an initialize() that lost the race to the timeout has read and parsed the index
AbandonedLoaded(i, parsed) ==
    /\ i \in DOMAIN instances
    /\ instances[i].abandoned > 0
    /\ ~ContinuationQueued
    /\ instances' = [instances EXCEPT ![i] = [initialized |-> TRUE, index |-> parsed,
                                              abandoned |-> @.abandoned - 1]]
    /\ kbRet' = RouteReturned("initialize", i, "ok")
    /\ UNCHANGED <<now, lruVars, limitVars, kbFields, deployed, kbInstance, kbInitializing,
                   handler, globalKnowledgeBase>>

\* an initialize() that lost the race to the timeout throws
AbandonedFailed(i) ==
    /\ i \in DOMAIN instances
    /\ instances[i].abandoned > 0
    /\ ~ContinuationQueued
    /\ instances' = [instances EXCEPT ![i].abandoned = @ - 1]
    /\ kbRet' = RouteReturned("initialize", i, InitializeError)
    /\ UNCHANGED <<now, lruVars, limitVars, kbFields, deployed, kbInstance, kbInitializing,
                   handler, globalKnowledgeBase>>

\* a request that got the instance from getKB() calls it: ensureInitialized()
UseKB(p) ==
    /\ handler[p].at = "got"
    /\ handler' = [handler EXCEPT ![p] = IdleHandler]
    /\ kbRet' = RouteReturned("ensureInitialized", p,
                              IF InstanceReady(handler[p].kb) THEN "ok" ELSE NotInitialized)
    /\ UNCHANGED <<now, lruVars, limitVars, kbFields, deployed, kbInstance, kbInitializing,
                   globalKnowledgeBase, instances>>

NextRoute ==
    \/ \E p \in Procs : GetKB(p)
    \/ \E p \in Procs, parsed \in ParsedIndexes : GetKBResolved(p, parsed)
    \/ \E p \in Procs : GetKBFailed(p)
    \/ \E p \in Procs : GetKBTimeout(p)
    \/ \E p \in Procs : GetKBContinue(p)
    \/ \E p \in Procs : GetKBSettle(p)
    \/ \E i \in 1..MaxInstances, parsed \in ParsedIndexes : AbandonedLoaded(i, parsed)
    \/ \E i \in 1..MaxInstances : AbandonedFailed(i)
    \/ \E p \in Procs : UseKB(p)
    \/ ResetKnowledgeBase

SpecRoute == InitRoute /\ [][NextRoute]_vars

-----------------------------------------------------------------------------
(* SpecLimit: the in-memory rate limiter (lib/rate-limit.ts).  rateLimit is  *)
(* the Map, as a function from the ips it holds to their records.            *)

RATE_LIMIT == [windowMs |-> 60000, max |-> 20]

CLEANUP_INTERVAL == 300000

ClientIPs == {"10.0.0.1", "10.0.0.2"}

\* the clock of the limiter advances one window at a time
RlStep == RATE_LIMIT.windowMs

RlMaxTime == 360000    \* and runs from 0 to RlMaxTime

\* Math.ceil(ms / 1000) for ms >= 0
CeilSeconds(ms) == (ms + 999) \div 1000

\* a variant of cleanupExpiredRecords that deletes every record when it runs
cleanupAllRecords(records, last, t) ==
    IF t - last < CLEANUP_INTERVAL
    THEN [records |-> records, lastCleanup |-> last]
    ELSE [records |-> <<>>, lastCleanup |-> t]

\* cleanupExpiredRecords() at time t: the Map and lastCleanup afterwards
cleanupExpiredRecords(records, last, t) ==
    IF t - last < CLEANUP_INTERVAL
    THEN [records |-> records, lastCleanup |-> last]
    ELSE [records |-> [ip \in {i \in DOMAIN records : ~(t > records[i].resetTime)} |->
                          records[ip]],
          lastCleanup |-> t]

\* checkRateLimit(ip) at time t, after the cleanup: the Map afterwards and the result
checkRateLimit(records, ip, t) ==
    IF ip \notin DOMAIN records \/ t > records[ip].resetTime
    THEN [records |-> [i \in DOMAIN records \cup {ip} |->
                          IF i = ip
                          THEN [count |-> 1, resetTime |-> t + RATE_LIMIT.windowMs]
                          ELSE records[i]],
          result |-> [allowed |-> TRUE, remaining |-> RATE_LIMIT.max - 1,
                      retryAfter |-> Undefined]]
    ELSE IF records[ip].count >= RATE_LIMIT.max
    THEN [records |-> records,
          result |-> [allowed |-> FALSE, remaining |-> 0,
                      retryAfter |-> Some(CeilSeconds(records[ip].resetTime - t))]]
    ELSE [records |-> [records EXCEPT ![ip].count = @ + 1],
          result |-> [allowed |-> TRUE,
                      remaining |-> RATE_LIMIT.max - (records[ip].count + 1),
                      retryAfter |-> Undefined]]

\* the module as loaded: an empty Map, lastCleanup = Date.now()
InitLimit ==
    /\ now = 0
    /\ rateLimit = <<>>
    /\ lastCleanup = 0
    /\ rlRet = [ip |-> "", result |-> <<>>]
    /\ RouteUnused
    /\ LruUnused
    /\ KbUnused
    /\ hasWindow = FALSE

\* a request of a client is checked
CheckRateLimit(ip) ==
    LET cleaned == cleanupExpiredRecords(rateLimit, lastCleanup, now)
        checked == checkRateLimit(cleaned.records, ip, now)
    IN  /\ lastCleanup' = cleaned.lastCleanup
        /\ rateLimit' = checked.records
        /\ rlRet' = [ip |-> ip, result |-> checked.result]
        /\ UNCHANGED <<lruVars, kbVars, routeVars, hasWindow, now>>

\* time passes
RlTick ==
    /\ now + RlStep <= RlMaxTime
    /\ now' = now + RlStep
    /\ rlRet' = [ip |-> "", result |-> <<>>]
    /\ UNCHANGED <<lruVars, kbVars, routeVars, hasWindow, rateLimit, lastCleanup>>

NextLimit ==
    \/ \E ip \in ClientIPs : CheckRateLimit(ip)
    \/ RlTick

SpecLimit == InitLimit /\ [][NextLimit]_vars

-----------------------------------------------------------------------------
(* Search utilities (lib/knowledge/search): tokens, Jaccard similarity and *)
(* the advanced scorer.  A number is a ratio <<numerator, denominator>> of  *)
(* integers with a positive denominator, or NaN, written <<0, 0>>.         *)

NaN == <<0, 0>>

Ratio(n, d) == <<n, d>>

\* x / y of two sizes: 0 / 0 is NaN (a size is never negative, and the functions
\* here divide by 0 only when they divide 0)
Divide(x, y) == IF y = 0 THEN NaN ELSE Ratio(x, y)

\* x * w for an integer w
Times(x, w) == IF x = NaN THEN NaN ELSE Ratio(x[1] * w, x[2])

\* x + y
Plus(x, y) ==
    IF x = NaN \/ y = NaN THEN NaN ELSE Ratio(x[1] * y[2] + y[1] * x[2], x[2] * y[2])

\* the stop words of tokenize: those of extractKeywords and fifteen more
\* (' startup', with its leading space, is never equal to a token)
STOP_WORDS ==
    stopWords \cup
    {<<"a", "b", "o", "u", "t">>, <<"a", "l", "s", "o">>, <<"i", "n", "t", "o">>,
     <<"u", "p">>, <<"o", "u", "t">>, <<"i", "f">>, <<"t", "h", "e", "n">>, <<"a", "s">>,
     <<"i", "t", "s">>, <<" ", "s", "t", "a", "r", "t", "u", "p">>,
     <<"s", "t", "a", "r", "t", "u", "p", "s">>, <<"f", "o", "u", "n", "d", "e", "r">>,
     <<"f", "o", "u", "n", "d", "e", "r", "s">>, <<"c", "o", "m", "p", "a", "n", "y">>,
     <<"c", "o", "m", "p", "a", "n", "i", "e", "s">>}

\* new Set(tokenize(text)), for the characters of a text
TokenSet(chars) ==
    LET words == SplitWords(ReplaceNonWord(ToLowerCase(chars)), <<>>)
    IN  {words[i] : i \in {j \in 1..Len(words) :
                               Len(words[j]) > 2 /\ words[j] \notin STOP_WORDS}}

\* intersection.size / union.size
jaccardSimilarity(setA, setB) ==
    Divide(Cardinality(setA \cap setB), Cardinality(setA \cup setB))

DEFAULT_WEIGHTS ==
    [title |-> 5, author |-> 3, topics |-> 3, summary |-> 2, content |-> 1, category |-> 2]

\* advancedScoreResource(resource, query) with the default weights
advancedScoreResource(resource, query) ==
    LET w == DEFAULT_WEIGHTS
        queryTokens == TokenSet(Text[query])
        topicTokens == UNION {TokenSet(Text[resource.topics[i]]) :
                                 i \in 1..Len(resource.topics)}
        hasSummary == IsDefined(resource.summary) /\ Text[ValueOf(resource.summary)] # <<>>
        categoryMatch == \E i \in 1..Len(resource.topics) :
                            Includes(ToLowerCase(Text[query]),
                                     ToLowerCase(Text[resource.topics[i]]))
        breakdown ==
            [title |-> Times(jaccardSimilarity(queryTokens, TokenSet(Text[resource.title])),
                             w.title),
             author |-> Times(jaccardSimilarity(queryTokens, TokenSet(Text[resource.author])),
                              w.author),
             topics |-> Times(jaccardSimilarity(queryTokens, topicTokens), w.topics),
             summary |-> IF hasSummary
                         THEN Times(jaccardSimilarity(queryTokens,
                                        TokenSet(Text[ValueOf(resource.summary)])),
                                    w.summary)
                         ELSE Ratio(0, 1),
             category |-> IF categoryMatch THEN Ratio(w.category, 1) ELSE Ratio(0, 1)]
    IN  [score |-> Plus(Plus(Plus(Plus(Plus(Ratio(0, 1), breakdown.title), breakdown.author),
                                  breakdown.topics), breakdown.summary), breakdown.category),
         breakdown |-> breakdown]

-----------------------------------------------------------------------------
(* SpecFunctions: the pure functions, applied to arguments of small sets.  *)
(* kbRet holds the last application and its value; no instance exists.     *)

InitFunctions ==
    /\ now = 0
    /\ initialized = FALSE
    /\ index = NullIndex
    /\ resourceCache = <<>>
    /\ searchCache = <<>>
    /\ pc = <<>>
    /\ kbRet = [op |-> "new", arg |-> "", phase |-> "call", io |-> "", ready |-> FALSE,
                outcome |-> "ok", ret |-> <<>>]
    /\ initFailed = FALSE
    /\ overlapped = FALSE
    /\ indexLoads = 0
    /\ LruUnused
    /\ ApiUnused
    /\ hasWindow = FALSE

\* a function was applied to arg and gave ret
Applied(op, arg, ret) ==
    /\ kbRet' = Returned(op, arg, "ok", ret)
    /\ UNCHANGED <<lruVars, apiVars, now, initialized, index, resourceCache, searchCache, pc,
                   initFailed, overlapped, indexLoads>>

\* the document lists handed to applyFilters
DocumentLists == {Corpus, AllResources, <<DocDU, Doc8z>>, <<Doc91>>, <<>>}

\* the SearchFilters objects handed to applyFilters
FilterObjects ==
    {<< <<"categories", c>>, <<"stages", s>>, <<"authors", a>>, <<"types", t>>,
        <<"minLines", lo>>, <<"maxLines", hi>> >> :
        c \in {Undefined, Some(<<>>), Some(<<"idea">>), Some(<<"founders", "mindset">>)},
        s \in {Undefined, Some(<<"idea">>)},
        a \in {Undefined, Some(<<"Paul Graham">>), Some(<<"Dalton Caldwell">>)},
        t \in {Undefined, Some(<<"video">>)},
        lo \in {Undefined, Some(120)},
        hi \in {Undefined, Some(300)}}

ApplyFilters(resources, filters) ==
    Applied("applyFilters", <<resources, filters>>, applyFilters(resources, filters))

\* the keywords handed to calculateKeywordScore: lists of up to two of these
ScoredKeywords == {"idea", "ideas", "startup", "Paul Graham", "founders", "zz"}

ScoredKeywordLists ==
    {<<>>} \cup {<<k>> : k \in ScoredKeywords}
           \cup {<<k1, k2>> : k1 \in ScoredKeywords, k2 \in ScoredKeywords}

CalculateKeywordScore(resource, keywords) ==
    Applied("calculateKeywordScore", <<resource, keywords>>,
            calculateKeywordScore(resource, keywords))

\* the token sets handed to jaccardSimilarity
TokenSets ==
    {{}, {Text["idea"]}, {Text["startup"]}, {Text["idea"], Text["startup"]},
     {Text["idea"], Text["startup"], Text["mindset"]}}

JaccardSimilarity(setA, setB) ==
    Applied("jaccardSimilarity", <<setA, setB>>, jaccardSimilarity(setA, setB))

\* a document whose only topic is the category 'ai'
DocAi == [Doc8z EXCEPT !.code = "JW", !.topics = <<"ai">>]

\* the query texts handed to advancedScoreResource
ScoredQueries == {"", "startup ideas", "how to get ideas?", "idea", "ai"}

AdvancedScoreResource(resource, query) ==
    Applied("advancedScoreResource", <<resource, query>>,
            advancedScoreResource(resource, query))

NextFunctions ==
    \/ \E resources \in DocumentLists, filters \in FilterObjects \cup {NoFilters} :
            ApplyFilters(resources, filters)
    \/ \E resource \in Elements(Corpus), keywords \in ScoredKeywordLists :
            CalculateKeywordScore(resource, keywords)
    \/ \E setA \in TokenSets, setB \in TokenSets : JaccardSimilarity(setA, setB)
    \/ \E resource \in Elements(Corpus) \cup {DocAi}, query \in ScoredQueries :
            AdvancedScoreResource(resource, query)

SpecFunctions == InitFunctions /\ [][NextFunctions]_vars

-----------------------------------------------------------------------------
(* Claims about the LRU cache (SpecLRU) *)

\* a step that inserts a key that is not present into a full cache of unexpired entries
OverflowInsert ==
    /\ lruRet'.op = "set"
    /\ lruMax >= 2
    /\ LRUSize(lru) = lruMax
    /\ ~MapHas(lru, lruRet'.key)
    /\ \A e \in Entries(lru) : now - e.timestamp <= e.ttl

\* C1: LRU eviction. set(k, v) of a key that is not present, on a full cache
\* (maxSize >= 2) of unexpired entries, removes exactly one entry, the least
\* recently used one (last use = the later of the key's insertion and its last
\* successful get), keeps every other entry as it was, and afterwards holds k.
C1_LRUEviction ==
    [][OverflowInsert =>
        /\ MapKeys(lru') = (MapKeys(lru) \ {Head(useOrder)}) \cup {lruRet'.key}
        /\ Cardinality(MapKeys(lru) \ MapKeys(lru')) = 1
        /\ \A e \in Entries(lru) : e.key # Head(useOrder) => e \in Entries(lru')
        /\ LRUSize(lru') = lruMax
      ]_vars

\* an overflow insert has just evicted an entry that was written after a surviving
\* one: the survivor was protected by a get
C1_Witness ==
    /\ lruRet.op = "set"
    /\ lruMax >= 2
    /\ Cardinality(lruRet.removed) = 1
    /\ LRUSize(lru) = lruMax
    /\ MapHas(lru, lruRet.key)
    /\ \A e \in Entries(lru) : now - e.timestamp <= e.ttl
    /\ \E e \in Entries(lru), r \in lruRet.removed : e.timestamp < r.timestamp

\* C2: TTL expiry. get(k) on an entry written more than its TTL ago returns a miss
\* and removes that entry (size() drops by one); get(k) on an entry written at most
\* its TTL ago returns the stored value.
C2_TTLExpiry ==
    [][(lruRet'.op = "get" /\ MapHas(lru, lruRet'.key)) =>
        LET entry == MapGet(lru, lruRet'.key) IN
        IF now - entry.timestamp > entry.ttl
        THEN /\ lruRet'.ret = Undefined
             /\ ~MapHas(lru', lruRet'.key)
             /\ LRUSize(lru') = LRUSize(lru) - 1
        ELSE /\ lruRet'.ret = Some(entry.data)
             /\ MapHas(lru', lruRet'.key)
      ]_vars

\* a get has just missed on an expired entry and removed it, and the cache still
\* holds another entry
C2_Witness ==
    /\ lruRet.op = "get"
    /\ lruRet.ret = Undefined
    /\ {r.key : r \in lruRet.removed} = {lruRet.key}
    /\ LRUSize(lru) >= 1

\* C3: an entry stored with set(k, v, 0) is reported as a miss by the get(k) that
\* follows it, however soon (as stated by the specification).
C3_ZeroTtlMissesOnNextGet ==
    [][(/\ lruRet.op = "set"
        /\ lruRet.ttl = Some(0)
        /\ lruRet'.op = "get"
        /\ lruRet'.key = lruRet.key) => lruRet'.ret = Undefined
      ]_vars

-----------------------------------------------------------------------------
(* Claims about the KnowledgeBase *)

ResultCore(result) == [resources |-> result.resources, total |-> result.total]

\* C4: idempotent search. Every search(q) that returns, from the cache or by
\* computing, returns the resources (in order) and the total that computing q over
\* the index gives; so any two search(q) calls with identical arguments agree,
\* whatever searches, loads, clearCache, evictions and expiries lie between them.
C4_IdempotentSearch ==
    (kbRet.op = "search" /\ kbRet.outcome = "ok") =>
        ResultCore(kbRet.ret) = ResultCore(SearchCompute(kbRet.arg, 0))

\* a search has just been answered from the cache, by an entry that a different
\* query object with the same serialized form had stored earlier
C4_Witness ==
    /\ kbRet.op = "search"
    /\ kbRet.outcome = "ok"
    /\ kbRet.ret.query # kbRet.arg
    /\ \E e \in Entries(searchCache) :
          e.key = SerializeQuery(kbRet.arg) /\ e.timestamp < now

\* the public operations other than initialize()
GuardedOperations ==
    {"search", "quickSearch", "loadResource", "getAllResources", "getResourceMeta",
     "getResourcesByCodes", "getResourcesByCategory", "getResourcesByAuthor",
     "getResourcesByType", "getResourcesByStage", "getCategories", "getStats",
     "clearCache", "getCacheStats"}

\* C5: every public operation other than initialize(), called before initialization
\* has completed, fails with the not-initialized error and leaves the instance
\* unchanged (as stated by the specification).
C5_OperationsRequireReady ==
    [][(kbRet'.op \in GuardedOperations /\ kbRet'.phase = "call" /\ ~Ready) =>
        /\ kbRet'.outcome = NotInitialized
        /\ UNCHANGED <<initialized, index, resourceCache, searchCache, pc>>
      ]_vars

InFlightInitializations == {p \in Procs : pc[p].at = "initialize"}

\* C6: when initialize() calls overlap, the index is loaded at most once: at most
\* one load is in flight and this.index is assigned at most once (as stated by the
\* specification).
C6_OverlappingInitializeLoadsOnce ==
    /\ Cardinality(InFlightInitializations) <= 1
    /\ indexLoads <= 1

\* C7: initialize() is idempotent. A call on an initialized instance returns at
\* once, starts no load and leaves the index, the ready flag and both caches as
\* they are; and as long as no two initialize() calls have overlapped, the index
\* has been loaded at most once, and exactly once when the instance is initialized.
C7_InitializeIdempotent ==
    /\ [][(kbRet'.op = "initialize" /\ kbRet'.phase = "call" /\ initialized) =>
            /\ kbRet'.outcome = "ok"
            /\ UNCHANGED <<initialized, index, resourceCache, searchCache, pc, indexLoads>>
         ]_vars
    /\ [](~overlapped => (indexLoads <= 1 /\ (initialized => indexLoads = 1)))

\* initialize() has just returned from an initialized instance whose caches hold
\* entries
C7_Witness ==
    /\ kbRet.op = "initialize"
    /\ kbRet.phase = "call"
    /\ kbRet.ready
    /\ kbRet.outcome = "ok"
    /\ ~overlapped
    /\ resourceCache # <<>>
    /\ searchCache # <<>>

\* C8: after an initialize() has failed, the instance never becomes ready (as
\* stated by the specification).
C8_InitializeFailureIsFatal ==
    [][(initFailed /\ ~initialized) => ~initialized']_vars

\* C9: on a ready instance, loadResource(code) for a code of the index never
\* throws; it returns a Resource of that document whose content is the body or the
\* placeholder, and it returns the placeholder (metadata plus placeholder body)
\* when the body could not be read (the fetch failed or was answered with an
\* error status) or was empty (as stated by the specification).
C9_LoadResourceAlwaysDisplayable ==
    (kbRet.op = "loadResource" /\ kbRet.ready /\ ArrayIncludes(CorpusCodes, kbRet.arg)) =>
        /\ kbRet.outcome \in {"ok", "pending"}
        /\ kbRet.outcome = "ok" =>
              /\ kbRet.ret.meta = kbRet.arg
              /\ kbRet.ret.content \in {FileContent(DocOf(kbRet.arg)),
                                        PlaceholderContent(DocOf(kbRet.arg))}
        /\ kbRet.io \in {"empty", "notOk", "failed"} =>
              /\ kbRet.outcome = "ok"
              /\ kbRet.ret = Resource(DocOf(kbRet.arg), PlaceholderContent(DocOf(kbRet.arg)))

\* C10: on a ready instance, loadResource(code) for a code that has no document in
\* the index fails with ResourceNotFoundError (naming the code, status 404), starts
\* no fetch of a body and leaves both caches unchanged (as stated by the
\* specification).
C10_UnknownCodeIsNotFound ==
    [][(/\ kbRet'.op = "loadResource"
        /\ kbRet'.phase = "call"
        /\ Ready
        /\ ~ArrayIncludes(CorpusCodes, kbRet'.arg)) =>
            /\ kbRet'.outcome = "ResourceNotFoundError"
            /\ kbRet'.ret = ResourceNotFoundError(kbRet'.arg)
            /\ UNCHANGED <<resourceCache, searchCache, pc>>
      ]_vars

-----------------------------------------------------------------------------
(* Claims about search results (SpecSearch) *)

\* a search has just returned a result
SearchReturned == kbRet.op = "search" /\ kbRet.outcome = "ok"

\* the documents a query matches: those that pass its filters and, when it has
\* keywords, score more than 0
MatchedSet(query) ==
    {d \in Elements(Corpus) :
        /\ PassesFilters(d, ValueOf(query.filters))
        /\ (Len(query.keywords) > 0 => ScoreFor(d, query.keywords).score > 0)}

\* the sum of the counts of a Record<string, number>
RECURSIVE SumCounts(_)
SumCounts(counts) ==
    IF DOMAIN counts = {} THEN 0
    ELSE LET k == CHOOSE x \in DOMAIN counts : TRUE
         IN  counts[k] + SumCounts([x \in DOMAIN counts \ {k} |-> counts[x]])

\* the facet of a dimension counts, for every tag some matched document carries,
\* the matched documents that carry it
FacetOfMatched(facet, matched, Tags(_)) ==
    /\ DOMAIN facet = UNION {Tags(d) : d \in matched}
    /\ \A t \in DOMAIN facet : facet[t] = Cardinality({d \in matched : t \in Tags(d)})

\* C11: facets reflect the matched set, not the page. In every search result,
\* whatever limit and offset are, each facet count is the number of documents of the
\* full filtered-and-matched set that carry the tag, and the counts of facets.types
\* add up to total.
C11_FacetsOfMatchedSet ==
    SearchReturned =>
        LET matched == MatchedSet(kbRet.arg)
            facets == kbRet.ret.facets
            Topics(d) == Elements(d.topics)
            Stages(d) == Elements(d.founderStage)
            Author(d) == {d.author}
            Type(d) == {d.type}
        IN  /\ FacetOfMatched(facets.categories, matched, Topics)
            /\ FacetOfMatched(facets.authors, matched, Author)
            /\ FacetOfMatched(facets.stages, matched, Stages)
            /\ FacetOfMatched(facets.types, matched, Type)
            /\ SumCounts(facets.types) = kbRet.ret.total

\* a search has just returned a page that is shorter than the matched list, with
\* facets that count more documents than the page holds
C11_Witness ==
    /\ SearchReturned
    /\ Len(kbRet.ret.resources) > 0
    /\ kbRet.ret.total > Len(kbRet.ret.resources)
    /\ SumCounts(kbRet.ret.facets.types) > Len(kbRet.ret.resources)

\* the position of a document in the corpus, in insertion order
CorpusPosition(d) == CHOOSE i \in 1..Len(Corpus) : Corpus[i] = d

\* the score of a document for a query: its keyword score, 0 without keywords
QueryScore(d, query) ==
    IF Len(query.keywords) > 0 THEN ScoreFor(d, query.keywords).score ELSE 0

\* the matched documents that are ranked before d: those with a higher score, and
\* those with the same score that come earlier in the corpus
RankedBefore(d, query) ==
    {e \in MatchedSet(query) :
        \/ QueryScore(e, query) > QueryScore(d, query)
        \/ /\ QueryScore(e, query) = QueryScore(d, query)
           /\ CorpusPosition(e) < CorpusPosition(d)}

\* the full ranked matched list of a query, as codes
RankedMatched(query) ==
    [i \in 1..Cardinality(MatchedSet(query)) |->
        (CHOOSE d \in MatchedSet(query) : Cardinality(RankedBefore(d, query)) = i - 1).code]

\* C12: pagination. For limit >= 0 and offset >= 0, search returns the items at
\* positions [offset, offset + limit) of the full ranked matched list (corpus order
\* without keywords), total is the length of that list, and so
\* |resources| = min(limit, max(0, total - offset)) (as stated by the
\* specification).
C12_Pagination ==
    (SearchReturned /\ kbRet.arg.limit >= 0 /\ OffsetOf(kbRet.arg) >= 0) =>
        LET ranked == RankedMatched(kbRet.arg)
            offset == OffsetOf(kbRet.arg)
            limit == kbRet.arg.limit
        IN  /\ kbRet.ret.total = Len(ranked)
            /\ kbRet.ret.resources = SubSeq(ranked, offset + 1, Min(offset + limit, Len(ranked)))
            /\ Len(kbRet.ret.resources) = Min(limit, Max(0, Len(ranked) - offset))

\* C13: match set of search. With keywords, the matched documents are exactly the
\* filtered documents that score more than 0; without keywords they are all the
\* filtered documents, in corpus insertion order (as stated by the specification).
\* total counts the matched documents, a page that starts at 0 and is long enough
\* holds all of them, and a page of a query without keywords lists its documents
\* in insertion order.
C13_MatchSet ==
    SearchReturned =>
        LET matched == MatchedSet(kbRet.arg)
            resources == kbRet.ret.resources
        IN  /\ kbRet.ret.total = Cardinality(matched)
            /\ \A i \in 1..Len(resources) : resources[i] \in {d.code : d \in matched}
            /\ (OffsetOf(kbRet.arg) = 0 /\ kbRet.arg.limit >= Cardinality(matched)) =>
                   Elements(resources) = {d.code : d \in matched}
            /\ Len(kbRet.arg.keywords) = 0 =>
                   \A i, j \in 1..Len(resources) :
                       i < j => CorpusPosition(DocOf(resources[i]))
                                    < CorpusPosition(DocOf(resources[j]))

\* C14: ranking order. In every keyword search result the resources are in
\* non-increasing order of keyword score, documents with equal score keep their
\* corpus order, and no matched document that comes after the page scores higher
\* than a document on the page (as stated by the specification).
C14_RankingOrder ==
    (/\ SearchReturned
     /\ Len(kbRet.arg.keywords) > 0
     /\ kbRet.arg.limit >= 0
     /\ OffsetOf(kbRet.arg) >= 0) =>
        LET query == kbRet.arg
            resources == kbRet.ret.resources
            onPage == {DocOf(resources[i]) : i \in 1..Len(resources)}
        IN  /\ \A i, j \in 1..Len(resources) :
                   i < j => DocOf(resources[i]) \in RankedBefore(DocOf(resources[j]), query)
            /\ OffsetOf(query) = 0 =>
                   \A d \in onPage, e \in MatchedSet(query) \ onPage :
                       d \in RankedBefore(e, query)

\* the query without its filters, asking for the whole matched list
Unfiltered(query) ==
    [query EXCEPT !.filters = Some(NoFilters), !.limit = Len(Corpus), !.offset = Undefined]

\* C15: filter monotonicity. The total of search(q with filters F) is at most the
\* total of search(q with no filters), and every document that q with F returns is
\* matched by q without filters.
C15_FilterMonotonicity ==
    SearchReturned =>
        LET unfiltered == SearchCompute(Unfiltered(kbRet.arg), 0)
        IN  /\ kbRet.ret.total <= unfiltered.total
            /\ Elements(kbRet.ret.resources) \subseteq Elements(unfiltered.resources)

\* a search with filters has just returned some documents, fewer than the same
\* keywords match without filters
C15_Witness ==
    /\ SearchReturned
    /\ Len(ObjectKeys(ValueOf(kbRet.arg.filters))) > 0
    /\ kbRet.ret.total > 0
    /\ kbRet.ret.total < SearchCompute(Unfiltered(kbRet.arg), 0).total

-----------------------------------------------------------------------------
(* Claims about the pure functions (SpecFunctions) *)

\* a list filter is configured when it is given and not empty
Configured(list) == IsDefined(list) /\ ValueOf(list) # <<>>

\* the document passes every configured dimension of the filters
PassesEveryDimension(d, filters) ==
    LET categories == Prop(filters, "categories")
        stages == Prop(filters, "stages")
        authors == Prop(filters, "authors")
        types == Prop(filters, "types")
        minLines == Prop(filters, "minLines")
        maxLines == Prop(filters, "maxLines")
    IN  /\ Configured(categories) =>
               Elements(d.topics) \cap Elements(ValueOf(categories)) # {}
        /\ Configured(stages) =>
               Elements(d.founderStage) \cap Elements(ValueOf(stages)) # {}
        /\ Configured(authors) => d.author \in Elements(ValueOf(authors))
        /\ Configured(types) => d.type \in Elements(ValueOf(types))
        /\ IsDefined(minLines) => ValueOf(minLines) <= d.lines
        /\ IsDefined(maxLines) => d.lines <= ValueOf(maxLines)

\* no dimension of the filters is configured
NothingConfigured(filters) ==
    /\ \A name \in {"categories", "stages", "authors", "types"} :
           ~Configured(Prop(filters, name))
    /\ \A name \in {"minLines", "maxLines"} : ~IsDefined(Prop(filters, name))

\* C16: applyFilters returns, in the original order, exactly the documents that
\* pass every configured dimension (some topic in categories, some founderStage in
\* stages, author in authors, type in types, minLines <= lines <= maxLines); an
\* undefined or empty dimension excludes nothing, and with no configured dimension
\* the list comes back unchanged.
C16_ApplyFilters ==
    kbRet.op = "applyFilters" =>
        LET resources == kbRet.arg[1]
            filters == kbRet.arg[2]
            kept == {i \in 1..Len(resources) : PassesEveryDimension(resources[i], filters)}
        IN  /\ Len(kbRet.ret) = Cardinality(kept)
            /\ \A n \in 1..Len(kbRet.ret) :
                   \E i \in kept : /\ kbRet.ret[n] = resources[i]
                                   /\ Cardinality({j \in kept : j < i}) = n - 1
            /\ NothingConfigured(filters) => kbRet.ret = resources

\* applyFilters has just kept some documents and dropped others, under an empty
\* categories list and a minLines that a kept document meets exactly
C16_Witness ==
    /\ kbRet.op = "applyFilters"
    /\ Prop(kbRet.arg[2], "categories") = Some(<<>>)
    /\ IsDefined(Prop(kbRet.arg[2], "minLines"))
    /\ kbRet.ret # <<>>
    /\ Len(kbRet.ret) < Len(kbRet.arg[1])
    /\ \E i \in 1..Len(kbRet.ret) :
           kbRet.ret[i].lines = ValueOf(Prop(kbRet.arg[2], "minLines"))

\* the greatest number of a non-empty set
Greatest(S) == CHOOSE x \in S : \A y \in S : y <= x

\* what one (keyword, field) pair adds: the points of the highest tier that applies
\* (exact 10, containment 5, word boundary 3, none 0), times the weight of the field
TierPoints(value, keyword, weight) ==
    LET v == normalizeText(value)
        k == normalizeText(keyword)
    IN  weight * Greatest({0} \cup (IF v = k THEN {10} ELSE {})
                              \cup (IF Includes(v, k) THEN {5} ELSE {})
                              \cup (IF WordBoundaryTest(v, k) THEN {3} ELSE {}))

\* the field values of a document, with their weights
FieldValue(d, field) ==
    CASE field = "title" -> Text[d.title]
      [] field = "author" -> Text[d.author]
      [] field = "topics" -> JoinTexts(d.topics)
      [] field = "summary" -> IF IsDefined(d.summary) THEN Text[ValueOf(d.summary)] ELSE <<>>

FieldWeight == [title |-> 3, author |-> 2, topics |-> 2, summary |-> 1]

\* the sum of the points of the pairs (n, field) of a set
RECURSIVE SumPoints(_, _, _)
SumPoints(pairs, d, keywords) ==
    IF pairs = {} THEN 0
    ELSE LET pair == CHOOSE x \in pairs : TRUE
         IN  TierPoints(FieldValue(d, pair[2]), Text[keywords[pair[1]]], FieldWeight[pair[2]])
                + SumPoints(pairs \ {pair}, d, keywords)

\* C17: keyword tiering. Every (keyword, field) pair adds exactly one of 10 x
\* weight (the normalized value equals the normalized keyword), 5 x weight
\* (containment), 3 x weight (word boundary) or 0, the highest tier that applies,
\* with weights title 3, author 2, topics 2, summary 1, and the score of the
\* document is the sum over all pairs.
C17_KeywordTiering ==
    kbRet.op = "calculateKeywordScore" =>
        LET d == kbRet.arg[1]
            keywords == kbRet.arg[2]
        IN  kbRet.ret.score =
                SumPoints((1..Len(keywords)) \X DOMAIN FieldWeight, d, keywords)

\* a document has just been scored with an exact match in one field, a containment
\* match in another and pairs that add nothing
C17_Witness ==
    /\ kbRet.op = "calculateKeywordScore"
    /\ \E i, j \in 1..Len(kbRet.ret.matches) :
           /\ kbRet.ret.matches[i].field = "topics"
           /\ kbRet.ret.matches[i].score = 20
           /\ kbRet.ret.matches[j].field = "title"
           /\ kbRet.ret.matches[j].score = 15
    /\ Len(kbRet.ret.matches) < 4 * Len(kbRet.arg[2])

\* C18: jaccardSimilarity returns 0, not NaN, when both token sets are empty, and
\* so advancedScoreResource gives a numeric score also when the query and a field
\* of the document both tokenize to nothing (as stated by the specification).
C18_JaccardOfEmptySets ==
    /\ (kbRet.op = "jaccardSimilarity" /\ kbRet.arg[1] \cup kbRet.arg[2] = {}) =>
           (kbRet.ret # NaN /\ kbRet.ret[1] = 0)
    /\ kbRet.op = "advancedScoreResource" => kbRet.ret.score # NaN

-----------------------------------------------------------------------------
\* C19: query validation. A search whose query is out of range (a negative
\* limit) or malformed (no filters object) ends with the typed Invalid-Query
\* error, before any filtering or scoring.
C19_InvalidQueryRejected ==
    (/\ kbRet.op = "search"
     /\ \/ kbRet.arg.limit < 0
        \/ OffsetOf(kbRet.arg) < 0
        \/ ~IsDefined(kbRet.arg.filters)) =>
        kbRet.outcome = "InvalidQueryError"

-----------------------------------------------------------------------------
\* what search(query) answers at time t from the search cache c: the cached
\* result on a hit, otherwise the result computed over the index
SearchAnswer(c, t, query) ==
    LET cached == LRUGet(c, SerializeQuery(query), t).ret
    IN  IF IsDefined(cached)
        THEN [outcome |-> "ok", resources |-> ValueOf(cached).resources,
              total |-> ValueOf(cached).total, facets |-> ValueOf(cached).facets]
        ELSE IF ~IsDefined(query.filters)
        THEN [outcome |-> "TypeError", resources |-> <<>>, total |-> 0, facets |-> <<>>]
        ELSE [outcome |-> "ok", resources |-> SearchCompute(query, 0).resources,
              total |-> SearchCompute(query, 0).total,
              facets |-> SearchCompute(query, 0).facets]

\* C20: clearCache() is a frame for everything but the caches. Every step of
\* clearCache() leaves both caches empty (getCacheStats() would report 0 and 0),
\* leaves the index and the initialized flag as they were, and every search
\* answers after it with the resources, total and facets it would have answered
\* with before it.
C20_ClearCacheFrame ==
    [][kbRet'.op = "clearCache" =>
           /\ LRUSize(resourceCache') = 0
           /\ LRUSize(searchCache') = 0
           /\ index' = index
           /\ initialized' = initialized
           /\ Ready' = Ready
           /\ \A query \in SearchQueries :
                  SearchAnswer(searchCache', now', query) =
                      SearchAnswer(searchCache, now, query)
      ]_vars

\* clearCache() has returned on a ready instance, after time has passed, and
\* both caches are empty
C20_Witness ==
    /\ kbRet.op = "clearCache"
    /\ kbRet.outcome = "ok"
    /\ Ready
    /\ now > 0
    /\ LRUSize(resourceCache) = 0
    /\ LRUSize(searchCache) = 0

-----------------------------------------------------------------------------
(* Claims about the index lookups (SpecLoad) *)

\* the dictionary of the index a lookup by key reads
LookupDictionary(op) ==
    CASE op = "getResourcesByCategory" -> IndexFile.categories
      [] op = "getResourcesByAuthor" -> IndexFile.searchIndex.byAuthor
      [] op = "getResourcesByType" -> IndexFile.searchIndex.byType
      [] op = "getResourcesByStage" -> IndexFile.searchIndex.byStage

\* C21: lookups never fail on absent keys. On a ready instance
\* getResourcesByCodes(codes) returns the documents of the codes that the index
\* knows, in the order given, dropping the others; and getResourcesByCategory,
\* ByAuthor, ByType and ByStage return the empty list for a key that the index
\* does not have. None of them throws.
C21_LookupsNeverFail ==
    /\ kbRet.op = "getResourcesByCodes" =>
          /\ kbRet.outcome = "ok"
          /\ kbRet.ret = SelectSeq(kbRet.arg, LAMBDA c : ArrayIncludes(CorpusCodes, c))
    /\ (/\ kbRet.op \in {"getResourcesByCategory", "getResourcesByAuthor",
                         "getResourcesByType", "getResourcesByStage"}
        /\ kbRet.arg \notin DOMAIN LookupDictionary(kbRet.op)) =>
          /\ kbRet.outcome = "ok"
          /\ kbRet.ret = <<>>

-----------------------------------------------------------------------------
(* Further claims about the LRU cache (SpecLRU) *)

\* C22: cache bound. A cache constructed with maxSize >= 1 never holds more
\* than maxSize entries: size() <= maxSize in every reachable state, whatever
\* gets, sets (of new or present keys, with or without a ttl) and clears came
\* before.
C22_CacheBound == lruMax >= 1 => LRUSize(lru) <= lruMax

\* a set() of a new key has just evicted an entry of a full cache, and the cache
\* is full again
C22_Witness ==
    /\ lruRet.op = "set"
    /\ lruRet.removed # {}
    /\ lruMax >= 1
    /\ LRUSize(lru) = lruMax

-----------------------------------------------------------------------------
(* Further claims about search (SpecSearch) *)

\* the position of a code in a list of codes, 0 when it is not there
PositionOf(codes, code) ==
    IF \E i \in 1..Len(codes) : codes[i] = code
    THEN CHOOSE i \in 1..Len(codes) : codes[i] = code
    ELSE 0

\* the search of the scenario: keywords startup, ideas; no filter set; limit 3
IsScenarioQuery(query) ==
    /\ query.keywords = <<"startup", "ideas">>
    /\ IsDefined(query.filters)
    /\ NothingConfigured(ValueOf(query.filters))
    /\ query.limit = 3
    /\ OffsetOf(query) = 0

\* C23: the scenario over the 4-document corpus. Every search with keywords
\* startup, ideas, no filters and limit 3 that returns has 8z and 8g on its
\* page and 91 not before them (91 scores less than both), total 4 and
\* facets.categories.idea 3.
C23_Scenario ==
    (kbRet.op = "search" /\ kbRet.outcome = "ok" /\ IsScenarioQuery(kbRet.arg)) =>
        LET page == kbRet.ret.resources IN
        /\ PositionOf(page, "8z") > 0
        /\ PositionOf(page, "8g") > 0
        /\ PositionOf(page, "91") = 0 \/
              /\ PositionOf(page, "91") > PositionOf(page, "8z")
              /\ PositionOf(page, "91") > PositionOf(page, "8g")
        /\ ScoreFor(Doc8z, kbRet.arg.keywords).score > ScoreFor(Doc91, kbRet.arg.keywords).score
        /\ ScoreFor(Doc8g, kbRet.arg.keywords).score > ScoreFor(Doc91, kbRet.arg.keywords).score
        /\ kbRet.ret.total = 4
        /\ kbRet.ret.facets.categories["idea"] = 3

\* the search of the scenario has returned its page of three
C23_Witness ==
    /\ kbRet.op = "search"
    /\ kbRet.outcome = "ok"
    /\ IsScenarioQuery(kbRet.arg)
    /\ Len(kbRet.ret.resources) = 3

-----------------------------------------------------------------------------
\* the unexpired entries of the search cache stored under the serialized form of
\* a query, at time t
StoredFor(c, query, t) ==
    {e \in Entries(c) : e.key = SerializeQuery(query) /\ t - e.timestamp <= e.ttl}

\* a step in which search(q) is called on a ready instance while an unexpired
\* result is stored under the serialized form of q returns that result, as it was
\* stored (executionTimeMs included), takes no time and leaves the entries of the
\* cache, with their timestamps, as they were
ServedFromCache ==
    (kbRet'.op = "search" /\ Ready /\ StoredFor(searchCache, kbRet'.arg, now) # {}) =>
        /\ kbRet'.outcome = "ok"
        /\ \E e \in StoredFor(searchCache, kbRet'.arg, now) : kbRet'.ret = e.data
        /\ Entries(searchCache') = Entries(searchCache)
        /\ now' = now

\* C24, as stated: on a cache hit search(q) returns the stored result without
\* recomputing and without storing a new entry, and the query field of the
\* returned result equals q.
C24_CacheHitQueryEqual ==
    [][/\ ServedFromCache
       /\ (kbRet'.op = "search" /\ Ready /\ StoredFor(searchCache, kbRet'.arg, now) # {}) =>
              kbRet'.ret.query = kbRet'.arg
      ]_vars

\* C24, amended: on a cache hit search(q) returns the stored result without
\* recomputing and without storing a new entry, and the query field of the
\* returned result is the query that was executed when the result was stored:
\* it has the serialized form of q.
C24_CacheHit ==
    [][/\ ServedFromCache
       /\ (kbRet'.op = "search" /\ Ready /\ StoredFor(searchCache, kbRet'.arg, now) # {}) =>
              SerializeQuery(kbRet'.ret.query) = SerializeQuery(kbRet'.arg)
      ]_vars

\* a search has been served a result that was stored before the current time and
\* whose computation had taken one unit of time
C24_Witness ==
    /\ kbRet.op = "search"
    /\ kbRet.outcome = "ok"
    /\ kbRet.ret.executionTimeMs = 1
    /\ \E e \in StoredFor(searchCache, kbRet.arg, now) :
          e.timestamp < now /\ e.data = kbRet.ret

-----------------------------------------------------------------------------
(* Claims about the API layer *)

\* C25: getKB() hands out only a ready instance. No request holds an instance
\* it got from getKB() that is not ready, and no request's call on the instance
\* fails with the not-initialized error.
C25_GetKBHandsOutReady ==
    /\ \A p \in DOMAIN handler : handler[p].at = "got" => InstanceReady(handler[p].kb)
    /\ kbRet.op = "ensureInitialized" => kbRet.outcome = "ok"

-----------------------------------------------------------------------------
\* C26: search completes for the queries its callers build. On a ready
\* instance every search returns a result; for a query without a filters
\* object (the one the streaming POST handler builds) it is the result of the
\* same query with no filter set.
C26_SearchCompletes ==
    kbRet.op = "search" =>
        /\ kbRet.outcome = "ok"
        /\ ~IsDefined(kbRet.arg.filters) =>
               ResultCore(kbRet.ret) =
                   ResultCore(SearchCompute([kbRet.arg EXCEPT !.filters = Some(NoFilters)], 0))

-----------------------------------------------------------------------------
\* C27: overwriting counts as a use. A set(k, v') on a key the cache holds
\* leaves the size as it was, evicts nothing, replaces k's timestamp and TTL,
\* and makes k the most recently used entry: the last in the order in which
\* entries are evicted, so that the next overflow insert evicts another entry.
C27_OverwriteIsUse ==
    [][(lruRet'.op = "set" /\ MapHas(lru, lruRet'.key)) =>
           /\ LRUSize(lru') = LRUSize(lru)
           /\ lruRet'.removed = {}
           /\ MapGet(lru', lruRet'.key).timestamp = now
           /\ MapGet(lru', lruRet'.key).ttl = EffectiveTtl(lruRet'.ttl, lruTtl)
           /\ lru'[Len(lru')].key = lruRet'.key
      ]_vars

-----------------------------------------------------------------------------
\* the unexpired entries of the resource cache stored under a code, at time t
CachedBody(c, code, t) ==
    {e \in Entries(c) : e.key = code /\ t - e.timestamp <= e.ttl}

\* C28: the resource cache holds only bodies that were loaded (as stated by
\* the specification). After every
\* step each entry of the resource cache is the Resource of a document of the
\* index with the body read from its file; a loadResource that returns the
\* placeholder stores nothing; a loadResource(code) of a document with no
\* unexpired entry under code goes on to read the body (again), and one with
\* an unexpired entry returns the stored Resource without reading.
C28_CacheHoldsLoadedBodies ==
    [][/\ \A e \in Entries(resourceCache') :
              /\ ArrayIncludes(CorpusCodes, e.key)
              /\ e.data = Resource(DocOf(e.key), FileContent(DocOf(e.key)))
       /\ (kbRet'.op = "loadResource" /\ kbRet'.phase = "resume" /\ kbRet'.io # "text") =>
              resourceCache' = resourceCache
       /\ (/\ kbRet'.op = "loadResource"
           /\ kbRet'.phase = "call"
           /\ Ready
           /\ ArrayIncludes(CorpusCodes, kbRet'.arg)) =>
              IF CachedBody(resourceCache, kbRet'.arg, now) # {}
              THEN /\ kbRet'.outcome = "ok"
                   /\ \E e \in CachedBody(resourceCache, kbRet'.arg, now) :
                          kbRet'.ret = e.data
                   /\ pc' = pc
              ELSE /\ kbRet'.outcome = "pending"
                   /\ \E p \in Procs : pc[p] = Idle /\ pc'[p].at = "loadResource"
      ]_vars

-----------------------------------------------------------------------------
\* C29: the initialized flag and the index go together (as stated by the
\* specification). In every reachable state of an instance the flag is set
\* exactly when the loaded index is present, so whatever passes
\* ensureInitialized() reads the loaded index; this holds while initialize()
\* calls are in flight, after one has failed and when they overlap.
C29_InitializedIffIndexLoaded ==
    /\ initialized <=> index = LoadedIndex
    /\ ~initialized <=> index = NullIndex
    /\ Ready => index = LoadedIndex

\* the record of ip is in its window at the present time
InWindow(ip) == ip \in DOMAIN rateLimit /\ ~(now > rateLimit[ip].resetTime)

\* the step is a checkRateLimit call of ip that behaves as the limiter should
LimitedCheck(ip) ==
    /\ ip \in DOMAIN rateLimit'
    /\ rlRet'.result.remaining \in 0..19
    /\ rateLimit'[ip].count \in 1..20
    /\ IF InWindow(ip) /\ rateLimit[ip].count >= 20
       THEN /\ rlRet'.result.allowed = FALSE
            /\ rlRet'.result.remaining = 0
            /\ rateLimit'[ip] = rateLimit[ip]
       ELSE IF InWindow(ip)
       THEN /\ rlRet'.result.allowed = TRUE
            /\ rateLimit'[ip] = [count |-> rateLimit[ip].count + 1,
                                 resetTime |-> rateLimit[ip].resetTime]
            /\ rlRet'.result.remaining = 20 - rateLimit'[ip].count
       ELSE /\ rlRet'.result.allowed = TRUE
            /\ rateLimit'[ip] = [count |-> 1, resetTime |-> now + 60000]
            /\ rlRet'.result.remaining = 19
    /\ \A other \in ClientIPs \ {ip} :
          InWindow(other) => other \in DOMAIN rateLimit' /\ rateLimit'[other] = rateLimit[other]
    /\ rlRet'.result = checkRateLimit(rateLimit, ip, now).result

\* C30: every checkRateLimit call opens a window with count 1 when the ip has no
\* record in its window, counts up to 20 allowed requests in the window, denies
\* each further one with remaining 0 and the record unchanged, reports a
\* remaining between 0 and 19, and decides as it would without the cleanup,
\* which leaves every record still in its window alone.
C30_RateLimit == [][rlRet'.ip \in ClientIPs => LimitedCheck(rlRet'.ip)]_vars

\* C30 witness: after a cleanup has deleted the expired record of the other
\* client, a client whose window holds 20 requests has just been denied.
C30_Witness ==
    /\ rlRet.ip \in ClientIPs
    /\ rlRet.result.allowed = FALSE
    /\ rlRet.result.remaining = 0
    /\ rateLimit[rlRet.ip].count = 20
    /\ lastCleanup > 0
    /\ now = lastCleanup
    /\ DOMAIN rateLimit = {rlRet.ip}

=============================================================================
